---- MODULE Spec2Model ----
(***************************************************************************)
(* A model of the AzProof core (src/src/core.py): the dual-digest hash     *)
(* primitive, the Merkle root builder, the receipt ledger (emit, append,   *)
(* load) and the structural receipt validator.                             *)
(*                                                                         *)
(* Representation.                                                         *)
(*  - A text (Python str or bytes content) is a sequence of atoms.  An     *)
(*    atom is a run of one character, a word without any colon in it, the  *)
(*    hex digest of some bytes, the ISO form of an instant, or the text    *)
(*    json.dumps produces for a mapping.  Texts are kept normalised (no    *)
(*    two adjacent runs of the same character), so two texts are the same  *)
(*    character string exactly when they are the same sequence.            *)
(*  - The digests are ideal: Digest(alg, bytes) is a term, so two digests  *)
(*    are equal exactly when algorithm and input are equal (no collision). *)
(*  - A Python value is a record [t, v] whose tag t fixes the shape of v.  *)
(*  - A Python dict is the sequence of its <<key, value>> pairs in         *)
(*    insertion order, keys pairwise distinct.                             *)
(***************************************************************************)
EXTENDS Integers, Sequences, FiniteSets, TLC

VARIABLES
    HAS_BLAKE3,   \* core.py 19-23: whether the blake3 library was importable
    fs,           \* the file system: path -> [exists, lines]
    now,          \* the UTC clock read by emit_receipt
    emitted,      \* history: the receipts emit_receipt returned, with the I/O outcome
    call          \* the last completed call: its operation, arguments and result

vars == <<HAS_BLAKE3, fs, now, emitted, call>>

-----------------------------------------------------------------------------
(* Bounds of the model *)

MaxLedger == 2    \* emit_receipt calls in one behaviour
MaxClock  == 2    \* instants the clock can show
MaxItems  == 3    \* length of a merkle item list
MaxText   == 2    \* atoms in a text given to dual_hash
MaxLines  == 3    \* lines of a ledger file given to load_receipts

(* Program constants *)

DigestHexLen == 64     \* hexdigest() of a 256-bit digest
HashPartLen  == 64     \* validate_receipt: len(parts[i]) != 64

-----------------------------------------------------------------------------
(* Texts *)

Run(c, n)  == [k |-> "run",  a |-> c,   n |-> n, of |-> <<>>]
Word(w, n) == [k |-> "word", a |-> w,   n |-> n, of |-> <<>>]
Digest(alg, bytes) == [k |-> "hex", a |-> alg, n |-> DigestHexLen, of |-> bytes]
Iso(instant) == [k |-> "iso", a |-> "utc", n |-> instant, of |-> <<>>]
JsonText(members) == [k |-> "json", a |-> "object", n |-> 0, of |-> members]

ColonAtom == Run(":", 1)
HexDigits == {"0", "1", "2", "3", "4", "5", "6", "7", "8", "9",
              "a", "b", "c", "d", "e", "f"}

IsColonRun(at) == at.k = "run" /\ at.a = ":"
IsHexAtom(at)  == at.k = "hex" \/ (at.k = "run" /\ at.a \in HexDigits)

\* len(text), for texts of runs, words and digests
RECURSIVE TextLen(_)
TextLen(s) == IF s = <<>> THEN 0 ELSE Head(s).n + TextLen(Tail(s))

\* ":" in text
HasColon(s) == \E i \in DOMAIN s : IsColonRun(s[i]) /\ s[i].n > 0

\* text.split(":"): every colon character separates two parts
RECURSIVE SplitColon(_, _, _)
SplitColon(s, cur, parts) ==
    IF s = <<>> THEN Append(parts, cur)
    ELSE IF IsColonRun(Head(s)) /\ Head(s).n > 0
         THEN SplitColon(IF Head(s).n = 1 THEN Tail(s)
                         ELSE <<Run(":", Head(s).n - 1)>> \o Tail(s),
                         <<>>, Append(parts, cur))
         ELSE SplitColon(Tail(s), Append(cur, Head(s)), parts)

split(s) == SplitColon(s, <<>>, <<>>)

-----------------------------------------------------------------------------
(* Python values *)

PyStr(s)   == [t |-> "str",   v |-> s]
PyBytes(s) == [t |-> "bytes", v |-> s]
PyInt(i)   == [t |-> "int",   v |-> i]
PyObj(s)   == [t |-> "obj",   v |-> s]   \* not JSON-serialisable; str(obj) = s
PyDict(d)  == [t |-> "dict",  v |-> d]
PyNone     == [t |-> "none",  v |-> <<>>]
PyBool(b)  == [t |-> "bool",  v |-> b]
PyFloat(h) == [t |-> "float", v |-> h]   \* a float, counted in hundredths
PyList(l)  == [t |-> "list",  v |-> l]

Lit(w, n) == PyStr(<<Word(w, n)>>)

\* str.encode('utf-8')
encode(x) == PyBytes(x.v)

-----------------------------------------------------------------------------
(* Python dicts: sequences of <<key, value>> in insertion order *)

Keys(d)       == {d[i][1] : i \in DOMAIN d}
DictHas(d, key) == key \in Keys(d)
DictGet(d, key) == d[CHOOSE i \in DOMAIN d : d[i][1] = key][2]

\* d[key] = val: a present key keeps its position
DictSet(d, key, val) ==
    IF DictHas(d, key)
    THEN [i \in DOMAIN d |-> IF d[i][1] = key THEN <<key, val>> ELSE d[i]]
    ELSE Append(d, <<key, val>>)

\* {**d, **e}
RECURSIVE DictUpdate(_, _)
DictUpdate(d, e) ==
    IF e = <<>> THEN d
    ELSE DictUpdate(DictSet(d, Head(e)[1], Head(e)[2]), Tail(e))

\* d == e in Python: the same mapping, whatever the insertion order
DictEq(d, e) ==
    /\ Keys(d) = Keys(e)
    /\ \A key \in Keys(d) : DictGet(d, key) = DictGet(e, key)

\* the key names of the model in the order sorted() gives them
KeyOrder == <<"account_id", "active", "activity_summary", "actual",
              "aihp_flag", "amount", "anomalies_detected", "anomaly_type",
              "approval_granted", "approval_id", "approval_rejected",
              "approval_request", "approvers", "automation_confidence",
              "billed_amount", "blueprint_id", "by_type", "claim_count",
              "claim_hash", "claim_hashes", "claim_id", "claims",
              "cluster_id", "combined_billing", "context", "could_automate",
              "cycle_id", "cycle_time_ms", "description", "domain",
              "domains", "entropy", "entropy_delta", "error", "error_count",
              "error_type", "errors", "exceeds_billing_threshold",
              "expected", "facility_type", "fiscal", "gap", "gaps_harvested",
              "helper_summary", "helpers_approved", "helpers_deployed",
              "helpers_proposed", "index", "key", "loop", "loop_cycle",
              "loop_error", "medicaid", "merchant_category_code",
              "merchant_id", "merchant_name", "merkle_root", "n_entities",
              "overall_success_rate", "paid_amount", "patient_id",
              "patterns_identified", "payload_hash", "period_minutes",
              "problem_type", "provider_id", "provider_name", "providers",
              "reason", "receipt", "receipt_type", "receipts_processed",
              "registration_burst", "rejected_by", "required_approvals",
              "resolution_steps", "retired", "risk_level", "risk_score",
              "service_type", "shared_principals", "slo_name", "tenant_id",
              "threshold", "time_to_resolve_ms", "total_amount",
              "total_executions", "total_helpers", "total_receipts",
              "total_successes", "total_time_saved_hours", "ts", "txn_count",
              "txn_hash", "txn_hashes", "txn_id", "txns", "unknown", "violation_type",
              "voucher">>

\* the items of d by ascending key, from the r-th key name on
SortedFrom(d, r) ==
    LET names == SelectSeq(SubSeq(KeyOrder, r, Len(KeyOrder)),
                           LAMBDA key : DictHas(d, key))
    IN  [i \in DOMAIN names |-> <<names[i], DictGet(d, names[i])>>]

SortKeys(d) == SortedFrom(d, 1)

-----------------------------------------------------------------------------
(* json.dumps and json.loads *)

\* The JSON value json.dumps(..., default=str) writes for a Python value: a
\* value JSON cannot represent is replaced by str(value), written as a string.
RECURSIVE JsonEnc(_, _)
JsonEnc(x, sort_keys) ==
    CASE x.t = "str"  -> [j |-> "string", v |-> x.v]
      [] x.t = "int"  -> [j |-> "number", v |-> x.v]
      [] x.t = "none" -> [j |-> "null",   v |-> <<>>]
      [] x.t = "float" -> [j |-> "real",  v |-> x.v]
      [] x.t = "bool" -> [j |-> "bool",   v |-> x.v]
      [] x.t = "list" -> [j |-> "array",
                          v |-> [i \in DOMAIN x.v |-> JsonEnc(x.v[i], sort_keys)]]
      [] x.t = "dict" -> [j |-> "object",
                          v |-> LET d == IF sort_keys THEN SortKeys(x.v) ELSE x.v
                                IN  [i \in DOMAIN d |->
                                        <<d[i][1], JsonEnc(d[i][2], sort_keys)>>]]
      [] OTHER        -> [j |-> "string", v |-> x.v]

\* json.dumps(d, sort_keys=..., default=str) for a dict d
dumps(d, sort_keys) == <<JsonText(JsonEnc(PyDict(d), sort_keys).v)>>

\* dict keys that are not strings: the tuple (1, 2) and the int 1
TupleKey == "(1, 2)"
IntKey   == "#1"

\* json.dumps(x, sort_keys=..., default=str) returns: default is not asked
\* about keys, so a key that is not a str, int, float, bool or None raises
\* TypeError, and so does sort_keys over keys that do not compare (an int
\* beside a str)
RECURSIVE Dumpable(_, _)
Dumpable(x, sort_keys) ==
    CASE x.t = "dict" ->
            /\ TupleKey \notin Keys(x.v)
            /\ sort_keys => ~(IntKey \in Keys(x.v) /\ Keys(x.v) # {IntKey})
            /\ \A i \in DOMAIN x.v : Dumpable(x.v[i][2], sort_keys)
      [] x.t = "list" -> \A i \in DOMAIN x.v : Dumpable(x.v[i], sort_keys)
      [] OTHER -> TRUE

RECURSIVE JsonDec(_)
JsonDec(jv) ==
    CASE jv.j = "string" -> PyStr(jv.v)
      [] jv.j = "number" -> PyInt(jv.v)
      [] jv.j = "null"   -> PyNone
      [] jv.j = "real"   -> [t |-> "float", v |-> jv.v]
      [] jv.j = "bool"   -> [t |-> "bool", v |-> jv.v]
      [] jv.j = "array"  -> [t |-> "list", v |-> [i \in DOMAIN jv.v |-> JsonDec(jv.v[i])]]
      [] jv.j = "object" -> PyDict([i \in DOMAIN jv.v |->
                                        <<jv.v[i][1], JsonDec(jv.v[i][2])>>])

\* a text json.loads accepts (here: the text of one JSON object)
IsJson(line) == Len(line) = 1 /\ line[1].k = "json"

\* json.loads(line), defined when IsJson(line)
loads(line) == JsonDec([j |-> "object", v |-> line[1].of]).v

\* str.strip(): leading and trailing whitespace removed
IsSpace(at) == at.k = "run" /\ at.a = " "

RECURSIVE LStrip(_)
LStrip(s) == IF s # <<>> /\ IsSpace(Head(s)) THEN LStrip(Tail(s)) ELSE s

RECURSIVE RStrip(_)
RStrip(s) == IF s # <<>> /\ IsSpace(s[Len(s)]) THEN RStrip(SubSeq(s, 1, Len(s) - 1))
             ELSE s

strip(s) == RStrip(LStrip(s))

-----------------------------------------------------------------------------
(* core.py: configuration *)

TENANT_ID == Lit("azproof", 7)
RECEIPTS_LEDGER_PATH == "receipts.jsonl"

-----------------------------------------------------------------------------
(* core.py: dual_hash *)

\* the second digest of dual_hash: blake3 when the library was importable,
\* otherwise a salted SHA256
blake3_hash(bytes) ==
    IF HAS_BLAKE3
    THEN Digest("blake3", bytes)
    ELSE Digest("sha256", <<Word("blake3_fallback", 15), ColonAtom>> \o bytes)

dual_hash(data) ==
    LET b == IF data.t = "str" THEN encode(data) ELSE data
        sha256_hash == Digest("sha256", b.v)
    IN  PyStr(<<sha256_hash, ColonAtom, blake3_hash(b.v)>>)

-----------------------------------------------------------------------------
(* core.py: the ledger *)

Paths == {RECEIPTS_LEDGER_PATH, "import.jsonl"}
NoFile == [exists |-> FALSE, lines |-> <<>>]

\* a variant that opens the ledger with mode 'w': the write replaces the file
append_to_ledger_truncating(files, receipt, io) ==
    IF io = "ok"
    THEN [files |-> [files EXCEPT ![RECEIPTS_LEDGER_PATH] =
                        [exists |-> TRUE, lines |-> <<dumps(receipt, FALSE)>>]],
          attempts |-> 1, raised |-> "none"]
    ELSE [files |-> files, attempts |-> 1, raised |-> "none"]

\* a variant without the except clause: the IOError reaches the caller
append_to_ledger_raising(files, receipt, io) ==
    IF io = "ok"
    THEN [files |-> [files EXCEPT ![RECEIPTS_LEDGER_PATH] =
                        [exists |-> TRUE,
                         lines  |-> Append(@.lines, dumps(receipt, FALSE))]],
          attempts |-> 1, raised |-> "none"]
    ELSE [files |-> files, attempts |-> 1, raised |-> "IOError"]

\* append_to_ledger: open(RECEIPTS_LEDGER_PATH, 'a') and write one line; an
\* IOError of the open or the write is swallowed.  io is the outcome of the
\* storage layer; the result carries the number of write attempts made.
append_to_ledger(files, receipt, io) ==
    IF io = "ok"
    THEN [files |-> [files EXCEPT ![RECEIPTS_LEDGER_PATH] =
                        [exists |-> TRUE,
                         lines  |-> Append(@.lines, dumps(receipt, FALSE))]],
          attempts |-> 1, raised |-> "none"]
    ELSE [files |-> files, attempts |-> 1, raised |-> "none"]

\* emit_receipt at instant ts_now
emit_receipt(files, ts_now, receipt_type, data, tenant_id, io) ==
    LET ts           == PyStr(<<Iso(ts_now)>>)
        payload_json == PyStr(dumps(data, TRUE))
        payload_hash == dual_hash(payload_json)
        receipt == DictSet(DictUpdate(<< <<"receipt_type", receipt_type>>,
                                         <<"ts", ts>>,
                                         <<"tenant_id", tenant_id>> >>, data),
                           "payload_hash", payload_hash)
        appended == append_to_ledger(files, receipt, io)
    IN  IF ~Dumpable(PyDict(data), TRUE)
        THEN [files |-> files, attempts |-> 0, raised |-> "TypeError", val |-> PyNone]
        ELSE [files |-> appended.files, attempts |-> appended.attempts,
              raised |-> appended.raised, val |-> receipt]

\* the loop of load_receipts over the lines of an open file
RECURSIVE LoadLines(_, _)
LoadLines(lines, receipts) ==
    IF lines = <<>> THEN [raised |-> "none", val |-> receipts]
    ELSE LET line == strip(Head(lines))
         IN  IF line = <<>> THEN LoadLines(Tail(lines), receipts)
             ELSE IF IsJson(line)
                  THEN LoadLines(Tail(lines), Append(receipts, loads(line)))
                  ELSE [raised |-> "JSONDecodeError", val |-> <<>>]

\* load_receipts; ledger_path = "" stands for None
load_receipts(files, ledger_path) ==
    LET path == IF ledger_path = "" THEN RECEIPTS_LEDGER_PATH ELSE ledger_path
    IN  IF ~files[path].exists
        THEN [raised |-> "none", val |-> <<>>]     \* except FileNotFoundError
        ELSE LoadLines(files[path].lines, <<>>)

-----------------------------------------------------------------------------
(* core.py: validate_receipt *)

required_fields == <<"receipt_type", "ts", "tenant_id", "payload_hash">>

Returns(ok, reason, about) ==
    [raised |-> "none", val |-> [ok |-> ok, reason |-> reason, about |-> about]]

validate_receipt(receipt) ==
    LET missing == {i \in DOMAIN required_fields : ~DictHas(receipt, required_fields[i])}
    IN
    IF missing # {}
    THEN Returns(FALSE, "Missing required field",
                 required_fields[CHOOSE i \in missing : \A j \in missing : i <= j])
    ELSE IF DictGet(receipt, "tenant_id") # TENANT_ID
    THEN Returns(FALSE, "Invalid tenant_id", "tenant_id")
    ELSE LET payload_hash == DictGet(receipt, "payload_hash")
         IN  IF payload_hash.t # "str"
             THEN [raised |-> "TypeError", val |-> <<>>]   \* ":" not in <non-str>
             ELSE IF ~HasColon(payload_hash.v)
             THEN Returns(FALSE, "Invalid hash format", "payload_hash")
             ELSE LET parts == split(payload_hash.v)
                  IN  IF \/ Len(parts) # 2
                         \/ TextLen(parts[1]) # HashPartLen
                         \/ TextLen(parts[2]) # HashPartLen
                      THEN Returns(FALSE, "Invalid hash lengths", "payload_hash")
                      ELSE Returns(TRUE, "valid", "")

-----------------------------------------------------------------------------
(* core.py: merkle *)

\* the bytes of an item that are hashed into its leaf
canonical(item) ==
    LET as_str == IF item.t = "dict" THEN PyStr(dumps(item.v, TRUE)) ELSE item
    IN  IF as_str.t = "str" THEN encode(as_str) ELSE as_str

\* a variant that hashes each pair in a fixed order of its two members
MerkleLevel_sortedPairs(hashes) ==
    LET padded == IF Len(hashes) % 2 = 1
                  THEN Append(hashes, hashes[Len(hashes)])
                  ELSE hashes
    IN  [j \in 1..(Len(padded) \div 2) |->
            dual_hash(PyStr(CHOOSE c \in {padded[2 * j - 1].v \o padded[2 * j].v,
                                          padded[2 * j].v \o padded[2 * j - 1].v} : TRUE))]

\* a variant that carries the last hash of an odd level up unhashed
MerkleLevel_promotingLast(hashes) ==
    [j \in 1..((Len(hashes) + 1) \div 2) |->
        IF 2 * j <= Len(hashes)
        THEN dual_hash(PyStr(hashes[2 * j - 1].v \o hashes[2 * j].v))
        ELSE hashes[2 * j - 1]]

\* one pass of the while loop: pad an odd level, then hash the pairs
MerkleLevel(hashes) ==
    LET padded == IF Len(hashes) % 2 = 1
                  THEN Append(hashes, hashes[Len(hashes)])
                  ELSE hashes
    IN  [j \in 1..(Len(padded) \div 2) |->
            dual_hash(PyStr(padded[2 * j - 1].v \o padded[2 * j].v))]

RECURSIVE MerkleLoop(_)
MerkleLoop(hashes) ==
    IF Len(hashes) > 1 THEN MerkleLoop(MerkleLevel(hashes)) ELSE hashes[1]

merkle(items) ==
    IF items = <<>>
    THEN dual_hash(PyStr(<<>>))
    ELSE MerkleLoop([i \in DOMAIN items |-> dual_hash(canonical(items[i]))])

-----------------------------------------------------------------------------
(* Inputs *)

Min(a, b) == IF a <= b THEN a ELSE b

\* sequences over S of length at most n
SeqsUpTo(S, n) == UNION {[1..m -> S] : m \in 0..n}

Value     == Lit("value", 5)
ADate     == PyObj(<<Word("2024-01-01", 10)>>)     \* e.g. a datetime.date
HashAB    == PyStr(<<Run("a", 64), ColonAtom, Run("b", 64)>>)

ReceiptTypes == {Lit("test", 4), Lit("anomaly", 7)}
Tenants      == {TENANT_ID, Lit("custom", 6)}

\* payloads: plain fields in both insertion orders, a value JSON cannot
\* represent, and fields named like the four fields of the receipt itself
Payloads ==
    { << <<"key", Value>> >>,
      << <<"key", Value>>, <<"amount", PyInt(1)>> >>,
      << <<"amount", PyInt(1)>>, <<"key", Value>> >>,
      << <<"key", ADate>> >>,
      << <<"tenant_id", Lit("evil", 4)>> >>,
      << <<"receipt_type", Lit("spoof", 5)>> >>,
      << <<"ts", Lit("never", 5)>> >>,
      << <<"payload_hash", Lit("forged", 6)>>, <<"key", Value>> >> }

\* the inputs of the behaviours that grow the ledger
LedgerTypes    == ReceiptTypes
LedgerTenants  == {TENANT_ID}
LedgerPayloads ==
    { << <<"key", Value>> >>,
      << <<"amount", PyInt(1)>>, <<"key", Value>> >>,
      << <<"key", ADate>> >>,
      << <<"tenant_id", Lit("evil", 4)>> >> }

IOOutcomes == {"ok", "IOError"}

NoCall == [op |-> "none"]

-----------------------------------------------------------------------------
(* Actions *)

\* emit_receipt(receipt_type, data, tenant_id), the clock showing instant t
\* and the storage layer answering io
EmitReceipt(receipt_type, data, tenant_id, io, t) ==
    LET r == emit_receipt(fs, t, receipt_type, data, tenant_id, io)
    IN  /\ fs' = r.files
        /\ now' = t
        /\ emitted' = Append(emitted, [receipt |-> r.val, io |-> io])
        /\ call' = [op |-> "emit_receipt",
                    arg |-> [receipt_type |-> receipt_type, data |-> data,
                             tenant_id |-> tenant_id, io |-> io],
                    raised |-> r.raised, val |-> r.val, attempts |-> r.attempts]
        /\ UNCHANGED HAS_BLAKE3

\* load_receipts(ledger_path)
LoadReceipts(ledger_path) ==
    LET r == load_receipts(fs, ledger_path)
    IN  /\ call' = [op |-> "load_receipts", arg |-> ledger_path,
                    raised |-> r.raised, val |-> r.val]
        /\ UNCHANGED <<HAS_BLAKE3, fs, now, emitted>>

\* validate_receipt(receipt); emit_arg holds the arguments of the emit_receipt
\* call that returned the receipt, when one did
ValidateReceipt(receipt, emit_arg) ==
    LET r == validate_receipt(receipt)
    IN  /\ call' = [op |-> "validate_receipt", arg |-> receipt, emit_arg |-> emit_arg,
                    raised |-> r.raised, val |-> r.val]
        /\ UNCHANGED <<HAS_BLAKE3, fs, now, emitted>>

\* validate_receipt(emit_receipt(...))
ValidateEmitted ==
    /\ call.op = "emit_receipt"
    /\ call.raised = "none"
    /\ ValidateReceipt(call.val, call.arg)

-----------------------------------------------------------------------------
(* The ledger: emit_receipt and load_receipts on one store *)

Init ==
    /\ HAS_BLAKE3 \in BOOLEAN
    /\ fs = [p \in Paths |-> NoFile]
    /\ now = 1
    /\ emitted = <<>>
    /\ call = NoCall

Emit ==
    /\ Len(emitted) < MaxLedger
    /\ \E receipt_type \in LedgerTypes, data \in LedgerPayloads,
          tenant_id \in LedgerTenants, io \in IOOutcomes,
          t \in now..Min(now + 1, MaxClock) :
            EmitReceipt(receipt_type, data, tenant_id, io, t)

Load == \E ledger_path \in {"", "import.jsonl"} : LoadReceipts(ledger_path)

Next == Emit \/ Load

Spec == Init /\ [][Next]_vars

-----------------------------------------------------------------------------
(* One emit_receipt call on a fresh store, then validate_receipt of its result *)

EmitOnce ==
    /\ emitted = <<>>
    /\ \E receipt_type \in ReceiptTypes, data \in Payloads,
          tenant_id \in Tenants, io \in IOOutcomes,
          t \in now..Min(now + 1, MaxClock) :
            EmitReceipt(receipt_type, data, tenant_id, io, t)

NextEmit == EmitOnce \/ ValidateEmitted

SpecEmit == Init /\ [][NextEmit]_vars

-----------------------------------------------------------------------------
(* load_receipts on a ledger file of any content *)

ReceiptAB ==
    << <<"receipt_type", Lit("test", 4)>>, <<"ts", PyStr(<<Iso(1)>>)>>,
       <<"tenant_id", TENANT_ID>>, <<"key", Value>>, <<"payload_hash", HashAB>> >>

ReceiptBA ==
    << <<"receipt_type", Lit("test", 4)>>, <<"ts", PyStr(<<Iso(2)>>)>>,
       <<"tenant_id", TENANT_ID>>, <<"amount", PyInt(1)>>,
       <<"payload_hash", PyStr(<<Run("b", 64), ColonAtom, Run("a", 64)>>)>> >>

\* a JSON object that is no receipt: required fields gone, hash cut short
ReceiptCorrupt ==
    << <<"receipt_type", Lit("test", 4)>>, <<"key", Value>>,
       <<"payload_hash", PyStr(<<Run("a", 12)>>)>> >>

BlankLine     == <<Run(" ", 2)>>
MalformedLine == <<Word("{\"receipt_type\"", 15), ColonAtom, Word(" \"te", 4)>>

LedgerLines == {dumps(ReceiptAB, FALSE), dumps(ReceiptBA, FALSE),
                dumps(ReceiptCorrupt, FALSE), BlankLine, MalformedLine}

InitLoad ==
    /\ HAS_BLAKE3 \in BOOLEAN
    /\ \E lines \in SeqsUpTo(LedgerLines, MaxLines) :
          fs = [p \in Paths |-> IF p = "import.jsonl"
                                THEN [exists |-> TRUE, lines |-> lines]
                                ELSE NoFile]
    /\ now = 1
    /\ emitted = <<>>
    /\ call = NoCall

NextLoad == Load

SpecLoad == InitLoad /\ [][NextLoad]_vars

-----------------------------------------------------------------------------
(* validate_receipt on any receipt-like mapping *)

Absent == [t |-> "absent", v |-> <<>>]

HashCandidates ==
    { HashAB,                                                      \* well formed
      PyStr(<<Digest("sha256", <<>>), ColonAtom, Digest("blake3", <<>>)>>),
      PyStr(<<Run("z", 64), ColonAtom, Run("g", 64)>>),            \* not hexadecimal
      PyStr(<<Run("a", 64), ColonAtom, Run("b", 63)>>),            \* one part short
      PyStr(<<Run("a", 64), ColonAtom, Run("b", 64), ColonAtom, Run("c", 64)>>),
      PyStr(<<Run("a", 64), Run(":", 2), Run("b", 64)>>),
      PyStr(<<Word("deadbeef", 8)>>),                              \* no colon
      PyStr(<<>>),
      PyInt(5) }                                                   \* not a string

\* the mapping with the given values for the required fields, Absent leaving
\* the field out
Candidate(receipt_type, ts, tenant_id, payload_hash) ==
    LET all == << <<"receipt_type", receipt_type>>, <<"ts", ts>>,
                  <<"tenant_id", tenant_id>>, <<"key", Value>>,
                  <<"payload_hash", payload_hash>> >>
    IN  SelectSeq(all, LAMBDA kv : kv[2].t # "absent")

Candidates ==
    { Candidate(rt, ts, tn, ph) :
        rt \in {Absent, Lit("test", 4)},
        ts \in {Absent, PyStr(<<Iso(1)>>)},
        tn \in {Absent, TENANT_ID, Lit("wrong", 5)},
        ph \in {Absent} \cup HashCandidates }

ValidateAny == \E receipt \in Candidates : ValidateReceipt(receipt, <<>>)

NextValidate == ValidateAny

SpecValidate == Init /\ [][NextValidate]_vars

-----------------------------------------------------------------------------
(* merkle on any item list *)

MerkleItems ==
    { PyStr(<<Run("a", 1)>>), PyStr(<<Run("b", 1)>>), PyBytes(<<Run("a", 1)>>),
      PyDict(<< <<"key", Value>>, <<"amount", PyInt(1)>> >>) }

Merkle ==
    \E items \in SeqsUpTo(MerkleItems, MaxItems) :
        /\ call' = [op |-> "merkle", arg |-> items, raised |-> "none",
                    val |-> merkle(items)]
        /\ UNCHANGED <<HAS_BLAKE3, fs, now, emitted>>

NextMerkle == Merkle

SpecMerkle == Init /\ [][NextMerkle]_vars

-----------------------------------------------------------------------------
(* dual_hash, in processes that find or do not find the blake3 library *)

HashAtoms == {Run("a", 1), Run("b", 1), Word("test", 4), ColonAtom}

\* normalised texts: no two adjacent runs of the same character
HashTexts ==
    { s \in SeqsUpTo(HashAtoms, MaxText) :
        \A i \in 1..(Len(s) - 1) :
            ~(s[i].k = "run" /\ s[i + 1].k = "run" /\ s[i].a = s[i + 1].a) }

HashData == {PyStr(s) : s \in HashTexts} \cup {PyBytes(s) : s \in HashTexts}

DualHash ==
    \E data \in HashData :
        /\ call' = [op |-> "dual_hash", arg |-> data, raised |-> "none",
                    val |-> dual_hash(data)]
        /\ UNCHANGED <<HAS_BLAKE3, fs, now, emitted>>

\* a new process imports core.py: the try/except ImportError probes the library
\* again; the observer keeps the result of the last call
ImportCore ==
    /\ HAS_BLAKE3' \in BOOLEAN
    /\ UNCHANGED <<fs, now, emitted, call>>

NextHash == DualHash \/ ImportCore

SpecHash == Init /\ [][NextHash]_vars

-----------------------------------------------------------------------------
(* Properties of emit_receipt and validate_receipt *)

RequiredNames == {"receipt_type", "ts", "tenant_id", "payload_hash"}

\* the text has exactly two colon-separated parts of 64 hexadecimal characters
IsDualHex(x) ==
    /\ x.t = "str"
    /\ \E c \in DOMAIN x.v :
          /\ x.v[c] = ColonAtom
          /\ \A i \in DOMAIN x.v \ {c} : IsHexAtom(x.v[i])
          /\ TextLen(SubSeq(x.v, 1, c - 1)) = 64
          /\ TextLen(SubSeq(x.v, c + 1, Len(x.v))) = 64

\* C1: for any receipt type and any payload P, fields named receipt_type, ts,
\* tenant_id or payload_hash included, validate_receipt(emit_receipt(type, P))
\* with the default tenant returns (True, "valid").
C1_ValidateOfEmitIsValid ==
    (call.op = "validate_receipt" /\ call.emit_arg.tenant_id = TENANT_ID)
        => (call.raised = "none" /\ call.val.ok /\ call.val.reason = "valid")

\* a receipt emitted with the default tenant and a payload field tenant_id was validated
C1_Reached ==
    /\ call.op = "validate_receipt"
    /\ call.emit_arg.tenant_id = TENANT_ID
    /\ DictHas(call.emit_arg.data, "tenant_id")

\* C6: the receipt emit_receipt(type, payload, tenant) returns has receipt_type
\* equal to the type argument, tenant_id equal to the tenant argument, the ts
\* the clock showed, and every payload field with the value the payload gave it.
C6_ReceiptCarriesArguments ==
    call.op = "emit_receipt" =>
        /\ call.raised = "none"
        /\ DictGet(call.val, "receipt_type") = call.arg.receipt_type
        /\ DictGet(call.val, "tenant_id") = call.arg.tenant_id
        /\ DictGet(call.val, "ts") = PyStr(<<Iso(now)>>)
        /\ \A key \in Keys(call.arg.data) :
              /\ DictHas(call.val, key)
              /\ DictGet(call.val, key) = DictGet(call.arg.data, key)

\* the fields of a stored record that are not the four receipt fields
PayloadFields(record) == SelectSeq(record, LAMBDA kv : kv[1] \notin RequiredNames)

\* C7: for every receipt in the ledger, payload_hash equals DualHash of the
\* sorted-key serialization of the receipt's payload fields (all fields but
\* receipt_type, ts, tenant_id and payload_hash), so it can be recomputed from
\* the stored record.
C7_HashRecomputable ==
    \A i \in DOMAIN fs[RECEIPTS_LEDGER_PATH].lines :
        LET record == loads(fs[RECEIPTS_LEDGER_PATH].lines[i])
        IN  DictGet(record, "payload_hash")
                = dual_hash(PyStr(dumps(PayloadFields(record), TRUE)))

-----------------------------------------------------------------------------
(* Properties of the ledger *)

\* the receipts of the emit_receipt calls whose append succeeded, in call order
Appended == SelectSeq(emitted, LAMBDA e : e.io = "ok")

\* a receipt as JSON stores it: a value JSON cannot represent is kept as the
\* string str() gives for it
AsStored(receipt) ==
    [i \in DOMAIN receipt |->
        <<receipt[i][1],
          IF receipt[i][2].t = "obj" THEN PyStr(receipt[i][2].v) ELSE receipt[i][2]>>]

LedgerLoaded == call.op = "load_receipts" /\ call.arg = ""

\* C2 as stated: the ledger holds one record per successful emit_receipt, and
\* load_receipts returns exactly the emitted receipts in emission order.
C2_LoadReturnsEmitted ==
    /\ Len(fs[RECEIPTS_LEDGER_PATH].lines) = Len(Appended)
    /\ LedgerLoaded =>
          /\ call.raised = "none"
          /\ Len(call.val) = Len(Appended)
          /\ \A i \in DOMAIN call.val : DictEq(call.val[i], Appended[i].receipt)

\* C2, amended: the ledger holds one record per successful emit_receipt, and
\* load_receipts returns the emitted receipts in emission order as JSON stores
\* them: field for field the emitted receipt, a value JSON cannot represent
\* being returned as its string form.
C2_LoadReturnsStored ==
    /\ Len(fs[RECEIPTS_LEDGER_PATH].lines) = Len(Appended)
    /\ LedgerLoaded =>
          /\ call.raised = "none"
          /\ call.val = [i \in DOMAIN Appended |-> AsStored(Appended[i].receipt)]

\* two different receipts were appended and loaded back, one of them with a
\* value JSON cannot represent, with a failed append in between or around
C2_Reached ==
    /\ LedgerLoaded
    /\ Len(call.val) = 2
    /\ call.val[1] # call.val[2]
    /\ \E i \in DOMAIN Appended : AsStored(Appended[i].receipt) # Appended[i].receipt

\* C3: when the append fails with an I/O error, emit_receipt still returns the
\* complete receipt (type, timestamp, tenant, payload fields, payload_hash: the
\* receipt a successful append would have returned), raises nothing, makes no
\* second attempt and leaves every file as it was.
C3_FailedAppendIsSilent ==
    [][ (emitted' # emitted /\ call'.arg.io # "ok") =>
            /\ fs' = fs
            /\ call'.raised = "none"
            /\ call'.attempts = 1
            /\ RequiredNames \cup Keys(call'.arg.data) \subseteq Keys(call'.val)
            /\ IsDualHex(DictGet(call'.val, "payload_hash"))
            /\ call'.val = emit_receipt(fs, now', call'.arg.receipt_type, call'.arg.data,
                                        call'.arg.tenant_id, "ok").val ]_vars

\* an append failed on a ledger that already held a record
C3_Reached ==
    /\ call.op = "emit_receipt"
    /\ call.arg.io = "IOError"
    /\ Len(fs[RECEIPTS_LEDGER_PATH].lines) >= 1

\* a line that holds a receipt: a JSON object with the four fields and a
\* payload_hash of two 64-character hexadecimal parts
IsReceiptLine(line) ==
    /\ IsJson(strip(line))
    /\ RequiredNames \subseteq Keys(loads(strip(line)))
    /\ IsDualHex(DictGet(loads(strip(line)), "payload_hash"))

\* C4: load_receipts is never fatal on a bad line: a line that is malformed, or
\* whose receipt has corrupted required fields or hash format, is skipped, and
\* the remaining well-formed receipts are returned in their ledger order.
C4_BadLinesSkipped ==
    (call.op = "load_receipts" /\ call.arg # "") =>
        /\ call.raised = "none"
        /\ call.val = [i \in DOMAIN SelectSeq(fs[call.arg].lines, IsReceiptLine) |->
                          loads(strip(SelectSeq(fs[call.arg].lines, IsReceiptLine)[i]))]

\* C5: validate_receipt returns (True, "valid") exactly when the receipt has
\* the four required fields, its tenant_id is the expected tenant and its
\* payload_hash is two colon-separated 64-character hexadecimal parts; in every
\* other case it returns (False, reason) and raises nothing.
C5_ValidIffWellFormed ==
    call.op = "validate_receipt" =>
        /\ call.raised = "none"
        /\ call.val.ok <=>
              /\ RequiredNames \subseteq Keys(call.arg)
              /\ DictGet(call.arg, "tenant_id") = TENANT_ID
              /\ IsDualHex(DictGet(call.arg, "payload_hash"))
        /\ call.val.ok <=> (call.val.reason = "valid")

-----------------------------------------------------------------------------
(* Properties of merkle *)

\* the item lists t that arrange the items of s in another order
IsReordering(s, t) ==
    /\ Len(s) = Len(t)
    /\ \E p \in Permutations(DOMAIN s) : \A i \in DOMAIN s : t[i] = s[p[i]]

\* the byte string of an item: a map as its sorted-key serialization, a string
\* or bytes as its raw bytes
CanonicalBytes(item) == IF item.t = "dict" THEN dumps(item.v, TRUE) ELSE item.v

CanonicalList(items) == [i \in DOMAIN items |-> CanonicalBytes(items[i])]

MerkleAfterMerkle == call.op = "merkle" /\ call'.op = "merkle"

\* C8 as stated: merkle is order-sensitive for any items: a reordering of an
\* item list that yields a different list yields a different root.
C8_ReorderingChangesRoot ==
    [][ (MerkleAfterMerkle /\ IsReordering(call.arg, call'.arg) /\ call'.arg # call.arg)
            => call'.val # call.val ]_vars

\* C8, amended: a reordering of an item list that changes the sequence of the
\* items' canonical byte strings yields a different root (two different items
\* with the same canonical bytes, such as a string and its UTF-8 bytes, may be
\* swapped without changing the root).
C8_ReorderedBytesChangeRoot ==
    [][ (/\ MerkleAfterMerkle
         /\ IsReordering(call.arg, call'.arg)
         /\ CanonicalList(call'.arg) # CanonicalList(call.arg))
            => call'.val # call.val ]_vars

\* merkle was applied to a list of three items with three different byte strings
C8_Reached ==
    /\ call.op = "merkle"
    /\ Len(call.arg) = 3
    /\ Cardinality({CanonicalBytes(call.arg[i]) : i \in DOMAIN call.arg}) = 3

\* the reference construction: DualHash of each canonical item, then levels
\* reduced pairwise, the last hash of an odd level paired with itself
RefParent(left, right) == dual_hash(PyStr(left.v \o right.v))

RECURSIVE RefReduce(_)
RefReduce(level) ==
    IF level = <<>> THEN <<>>
    ELSE IF Len(level) = 1 THEN <<RefParent(level[1], level[1])>>
    ELSE <<RefParent(level[1], level[2])>> \o RefReduce(Tail(Tail(level)))

RECURSIVE RefRoot(_)
RefRoot(level) == IF Len(level) = 1 THEN level[1] ELSE RefRoot(RefReduce(level))

\* C9: merkle returns the root of the reference construction; the empty list
\* gives DualHash("") and a single item x gives DualHash(canonical(x)).
C9_MerkleIsReferenceRoot ==
    call.op = "merkle" =>
        /\ call.raised = "none"
        /\ call.arg = <<>> => call.val = dual_hash(PyBytes(<<>>))
        /\ Len(call.arg) = 1 => call.val = dual_hash(PyBytes(CanonicalBytes(call.arg[1])))
        /\ call.arg # <<>> =>
              call.val = RefRoot([i \in DOMAIN call.arg |->
                                     dual_hash(PyBytes(CanonicalBytes(call.arg[i])))])

\* merkle was applied to a list of odd length above one that holds a map
C9_Reached ==
    /\ call.op = "merkle"
    /\ Len(call.arg) = 3
    /\ \E i \in DOMAIN call.arg : call.arg[i].t = "dict"

-----------------------------------------------------------------------------
(* Properties of dual_hash *)

\* C10: dual_hash is a deterministic function of its input bytes: the same
\* input (a string counting as its UTF-8 bytes) yields the same output on every
\* call and in every runtime environment, whichever libraries are installed.
C10_SameInputSameHash ==
    [][ (call.op = "dual_hash" /\ call'.op = "dual_hash" /\ call'.arg.v = call.arg.v)
            => call'.val = call.val ]_vars

\* dual_hash ran in a process without the blake3 library
C10_Reached == call.op = "dual_hash" /\ ~HAS_BLAKE3

-----------------------------------------------------------------------------
(* medicaid/network.py: the provider graph                                 *)
(*                                                                         *)
(* A graph is a record [nodes, edges]; a node, an edge and a cluster are   *)
(* records whose fields are the keys of the Python dicts.  A Python set of *)
(* strings has no order of its own: what list(s) and "for x in s" yield    *)
(* depends on the hash seed of the process.  Every function that iterates  *)
(* a set takes the order as its last argument, a sequence that lists the   *)
(* identifiers in the order this process yields them.                      *)

\* truth value of a Python value
Truthy(x) ==
    CASE x.t = "none" -> FALSE
      [] x.t = "bool" -> x.v
      [] x.t = "int"  -> x.v # 0
      [] x.t = "float" -> x.v # 0
      [] OTHER        -> x.v # <<>>

\* d.get(key)
get(d, key) == IF DictHas(d, key) THEN DictGet(d, key) ELSE PyNone

\* the number of entities of the Ali case
AliEntities == 41

\* the provider identifiers of the model, "P01", "P02", ...: the letter and the
\* two digits of a number; sorted() orders them by their number
ProviderId(i) == PyStr(<<[k |-> "word", a |-> "P", n |-> 3, of |-> i]>>)

ProviderIds == [i \in 1..AliEntities |-> ProviderId(i)]

IdRank(id) == id.v[1].of

\* tuple(sorted([a, b]))
SortedPair(a, b) == IF IdRank(a) <= IdRank(b) THEN <<a, b>> ELSE <<b, a>>

\* list(s) for a set s, in the iteration order of the process
ListOf(s, order) == SelectSeq(order, LAMBDA id : id \in s)

\* rows[lo] \o ... \o rows[hi]
RECURSIVE ConcatRows(_, _, _)
ConcatRows(rows, lo, hi) ==
    IF lo > hi THEN <<>>
    ELSE IF lo = hi THEN rows[lo]
    ELSE ConcatRows(rows, lo, (lo + hi) \div 2)
            \o ConcatRows(rows, ((lo + hi) \div 2) + 1, hi)

\* the pairs (l[i], l[j]), i < j, in the order the two nested loops visit them:
\* the outer loop contributes one row for every i
PairsOf(l) ==
    ConcatRows([i \in 1..(Len(l) - 1) |->
                    [j \in 1..(Len(l) - i) |-> <<l[i], l[i + j]>>] \o <<>>] \o <<>>,
               1, Len(l) - 1)

MEDICAID_INGEST == Lit("medicaid_ingest", 15)

\* the state of build_provider_graph before its first loop
NoProviders == [providers |-> {}, provider_data |-> <<>>, patient_providers |-> <<>>]

\* the first loop: the set of providers, the per-provider totals (a dict, in
\* insertion order) and the patient -> set of providers mapping (a dict, in
\* insertion order)
RECURSIVE ScanClaims(_, _)
ScanClaims(claims, st) ==
    IF claims = <<>> THEN st
    ELSE LET claim       == Head(claims)
             provider_id == get(claim, "provider_id")
             patient_id  == get(claim, "patient_id")
             billed      == get(claim, "billed_amount")
             known       == \E i \in DOMAIN st.provider_data :
                                st.provider_data[i].provider_id = provider_id
             old         == IF known
                            THEN st.provider_data[CHOOSE i \in DOMAIN st.provider_data :
                                    st.provider_data[i].provider_id = provider_id]
                            ELSE [provider_id |-> provider_id, provider_name |-> PyNone,
                                  claim_count |-> 0, total_billed |-> 0]
             entry       == [provider_id   |-> provider_id,
                             provider_name |-> get(claim, "provider_name"),
                             claim_count   |-> old.claim_count + 1,
                             total_billed  |-> old.total_billed
                                               + (IF Truthy(billed) THEN billed.v ELSE 0)]
             data1       == IF ~Truthy(provider_id) THEN st.provider_data
                            ELSE IF known
                            THEN [i \in DOMAIN st.provider_data |->
                                    IF st.provider_data[i].provider_id = provider_id
                                    THEN entry ELSE st.provider_data[i]]
                            ELSE Append(st.provider_data, entry)
             seen        == \E i \in DOMAIN st.patient_providers :
                                st.patient_providers[i].patient_id = patient_id
             pp1         == IF seen
                            THEN [i \in DOMAIN st.patient_providers |->
                                    IF st.patient_providers[i].patient_id = patient_id
                                    THEN [st.patient_providers[i] EXCEPT
                                            !.providers = @ \cup {provider_id}]
                                    ELSE st.patient_providers[i]]
                            ELSE Append(st.patient_providers,
                                        [patient_id |-> patient_id,
                                         providers  |-> {provider_id}])
         IN  ScanClaims(Tail(claims),
                 [providers         |-> IF Truthy(provider_id)
                                        THEN st.providers \cup {provider_id}
                                        ELSE st.providers,
                  provider_data     |-> data1,
                  patient_providers |-> IF Truthy(patient_id) /\ Truthy(provider_id)
                                        THEN pp1 ELSE st.patient_providers])

\* a variant of the edge counter that opens a new entry on every increment
Bump_appending(edge_weights, edge_key) ==
    Append(edge_weights, [key |-> edge_key, weight |-> 1])

\* edge_weights[edge_key] += 1 on a defaultdict(int), kept in insertion order
Bump(edge_weights, edge_key) ==
    IF \E i \in DOMAIN edge_weights : edge_weights[i].key = edge_key
    THEN [i \in DOMAIN edge_weights |->
            IF edge_weights[i].key = edge_key
            THEN [edge_weights[i] EXCEPT !.weight = @ + 1]
            ELSE edge_weights[i]]
    ELSE Append(edge_weights, [key |-> edge_key, weight |-> 1])

\* the two nested loops over one provider_list
RECURSIVE BumpPairs(_, _)
BumpPairs(pairs, edge_weights) ==
    IF pairs = <<>> THEN edge_weights
    ELSE BumpPairs(Tail(pairs),
                   Bump(edge_weights, SortedPair(Head(pairs)[1], Head(pairs)[2])))

\* the loop over patient_providers.items()
RECURSIVE CountEdges(_, _, _)
CountEdges(patient_providers, edge_weights, order) ==
    IF patient_providers = <<>> THEN edge_weights
    ELSE CountEdges(Tail(patient_providers),
                    BumpPairs(PairsOf(ListOf(Head(patient_providers).providers, order)),
                              edge_weights),
                    order)

build_provider_graph(receipts, order) ==
    LET claims == SelectSeq(receipts,
                            LAMBDA r : get(r, "receipt_type") = MEDICAID_INGEST)
        st     == ScanClaims(claims, NoProviders)
        edge_weights == CountEdges(st.patient_providers, <<>>, order)
        edges  == [i \in DOMAIN edge_weights |->
                    [source |-> edge_weights[i].key[1],
                     target |-> edge_weights[i].key[2],
                     weight |-> edge_weights[i].weight,
                     type   |-> "shared_patient"]]
        provider_list == ListOf(st.providers, order)
        nodes  == [i \in DOMAIN provider_list |->
                    st.provider_data[CHOOSE k \in DOMAIN st.provider_data :
                        st.provider_data[k].provider_id = provider_list[i]]]
    IN  [nodes |-> nodes, edges |-> edges,
         n_providers |-> Cardinality(st.providers), n_edges |-> Len(edges)]

-----------------------------------------------------------------------------
(* build_provider_graph on bounded receipt lists *)

MaxReceipts == 4    \* length of a receipt list given to build_provider_graph

\* the orders in which a process can iterate a set of the identifiers in S
Orders(S) == {o \in [1..Cardinality(S) -> S] : \A i, j \in DOMAIN o : o[i] = o[j] => i = j}

GraphProviders == {ProviderIds[1], ProviderIds[2], ProviderIds[3]}
Patients       == {Lit("X", 1), Lit("Y", 1)}

\* a receipt as load_receipts returns it, reduced to the fields the graph reads
ClaimReceipt(receipt_type, provider_id, patient_id) ==
    << <<"receipt_type", receipt_type>>, <<"provider_id", provider_id>>,
       <<"patient_id", patient_id>>, <<"billed_amount", PyInt(1)>> >>

SharingReceipts ==
    {ClaimReceipt(MEDICAID_INGEST, p, x) : p \in GraphProviders, x \in Patients}

\* receipts of another type, without a provider, without a patient
OtherReceipts ==
    { ClaimReceipt(Lit("voucher_ingest", 14), ProviderIds[1], Lit("X", 1)),
      ClaimReceipt(MEDICAID_INGEST, PyStr(<<>>), Lit("X", 1)),
      << <<"receipt_type", MEDICAID_INGEST>>, <<"provider_id", ProviderIds[3]>> >> }

\* the lists: claims of providers that share patients, and lists that start
\* with a receipt the graph has to pass over
IsReceiptList(receipts) ==
    \/ \E m \in 0..MaxReceipts : receipts \in [1..m -> SharingReceipts]
    \/ \E o \in OtherReceipts, m \in 0..2 :
        \E l \in [1..m -> SharingReceipts] : receipts = <<o>> \o l

\* a call that has been made and has not returned yet
Pending(op, arg, order) == [op |-> "pending", fn |-> op, arg |-> arg, order |-> order]

\* a process, its sets iterating in some order, calls build_provider_graph
InitGraph ==
    /\ HAS_BLAKE3 \in BOOLEAN
    /\ fs = [p \in Paths |-> NoFile]
    /\ now = 1
    /\ emitted = <<>>
    /\ \E order \in Orders(GraphProviders) :
        \E receipts \in {r \in UNION {[1..m -> SharingReceipts \cup OtherReceipts] :
                                        m \in 0..MaxReceipts} : IsReceiptList(r)} :
            call = Pending("build_provider_graph", receipts, order)

BuildProviderGraph ==
    /\ call.op = "pending"
    /\ call.fn = "build_provider_graph"
    /\ call' = [op |-> "build_provider_graph", arg |-> call.arg, order |-> call.order,
                raised |-> "none", val |-> build_provider_graph(call.arg, call.order)]
    /\ UNCHANGED <<HAS_BLAKE3, fs, now, emitted>>

NextGraph == BuildProviderGraph

SpecGraph == InitGraph /\ [][NextGraph]_vars

-----------------------------------------------------------------------------
(* C11 *)

\* the medicaid_ingest receipts of a list that name a provider and a patient
Claims(receipts) ==
    SelectSeq(receipts, LAMBDA r : /\ get(r, "receipt_type") = MEDICAID_INGEST
                                   /\ Truthy(get(r, "provider_id"))
                                   /\ Truthy(get(r, "patient_id")))

\* the patients for whom both a and b have a claim among the claims c
SharedPatients(c, a, b) ==
    {x \in {get(c[i], "patient_id") : i \in DOMAIN c} :
        /\ \E i \in DOMAIN c : get(c[i], "provider_id") = a /\ get(c[i], "patient_id") = x
        /\ \E i \in DOMAIN c : get(c[i], "provider_id") = b /\ get(c[i], "patient_id") = x}

\* the edges of graph g that join a and b, in either direction
EdgesBetween(g, a, b) ==
    {i \in DOMAIN g.edges : {g.edges[i].source, g.edges[i].target} = {a, b}}

\* C11: build_provider_graph returns exactly one edge for each unordered pair
\* of distinct providers that share a patient, weighted with the number of
\* distinct patients the two share; no edge joins a provider to itself, no pair
\* has two edges and no edge joins providers that share no patient.
C11_OneEdgePerSharingPair ==
    call.op = "build_provider_graph" =>
        LET g  == call.val
            c  == Claims(call.arg)
            ps == {get(c[i], "provider_id") : i \in DOMAIN c}
        IN  /\ \A i \in DOMAIN g.edges :
                /\ g.edges[i].source # g.edges[i].target
                /\ {g.edges[i].source, g.edges[i].target} \subseteq ps
            /\ \A a, b \in ps :
                a # b =>
                    LET shared == SharedPatients(c, a, b)
                        es     == EdgesBetween(g, a, b)
                    IN  IF shared = {} THEN es = {}
                        ELSE /\ Cardinality(es) = 1
                             /\ \A i \in es : g.edges[i].weight = Cardinality(shared)
            /\ g.n_edges = Len(g.edges)

\* three providers share one patient and the graph has three edges of weight
\* 1; and some pair of providers shares two patients
C11_Reached ==
    /\ call.op = "build_provider_graph"
    /\ \/ /\ \A a, b \in GraphProviders :
                a # b => SharedPatients(Claims(call.arg), a, b) = {Lit("X", 1)}
          /\ Len(call.val.edges) = 3
          /\ \A i \in 1..3 : call.val.edges[i].weight = 1
       \/ \E a, b \in GraphProviders :
            a # b /\ Cardinality(SharedPatients(Claims(call.arg), a, b)) = 2

-----------------------------------------------------------------------------
(* medicaid/network.py: detect_clusters *)

\* adjacency[n]: the set of neighbours of n over the given edges
Neighbours(edges, n) ==
    {edges[i].target : i \in {k \in DOMAIN edges : edges[k].source = n}}
        \cup {edges[i].source : i \in {k \in DOMAIN edges : edges[k].target = n}}

\* the for loop over the neighbours of the node just dequeued: the neighbours
\* not yet visited are marked and queued, in the order of the loop
Enqueue(neighbours, queue, visited) ==
    LET fresh == SelectSeq(neighbours, LAMBDA n : n \notin visited)
    IN  [queue |-> queue \o fresh, visited |-> visited \cup {fresh[i] : i \in DOMAIN fresh}]

\* one iteration of the while loop: b.queue is not empty
BfsStep(edges, b, order) ==
    [component |-> Append(b.component, Head(b.queue)),
     queue     |-> Enqueue(ListOf(Neighbours(edges, Head(b.queue)), order),
                           Tail(b.queue), b.visited).queue,
     visited   |-> Enqueue(ListOf(Neighbours(edges, Head(b.queue)), order),
                           Tail(b.queue), b.visited).visited]

\* the while loop of the breadth-first search
RECURSIVE BfsLoop(_, _, _)
BfsLoop(edges, b, order) ==
    IF b.queue = <<>> THEN b ELSE BfsLoop(edges, BfsStep(edges, b, order), order)

Bfs(edges, queue, visited, component, order) ==
    BfsLoop(edges, [queue |-> queue, visited |-> visited, component |-> component],
            order)

\* the members of a sequence, as a set
Members(s) == {s[i] : i \in DOMAIN s}

\* sum(e.get("weight", 1) for e in edges)
RECURSIVE TotalWeight(_)
TotalWeight(edges) ==
    IF edges = <<>> THEN 0 ELSE Head(edges).weight + TotalWeight(Tail(edges))

\* the loop over the nodes: one breadth-first search from every node not yet
\* visited.  density is the quotient <<numerator, denominator>>:
\* len(cluster_edges) / max(1, n * (n - 1) / 2)
RECURSIVE Components(_, _, _, _, _, _)
Components(nodes, edges, min_size, visited, clusters, order) ==
    IF nodes = <<>> THEN clusters
    ELSE LET node_id == Head(nodes).provider_id
         IN  IF node_id \in visited
             THEN Components(Tail(nodes), edges, min_size, visited, clusters, order)
             ELSE LET b == Bfs(edges, <<node_id>>, visited \cup {node_id}, <<>>, order)
                      cluster_edges == SelectSeq(edges, LAMBDA e :
                                          /\ e.source \in Members(b.component)
                                          /\ e.target \in Members(b.component))
                      n == Len(b.component)
                      possible == (n * (n - 1)) \div 2
                      cluster == [cluster_id   |-> <<"cluster_", Len(clusters) + 1>>,
                                  providers    |-> b.component,
                                  size         |-> n,
                                  edge_count   |-> Len(cluster_edges),
                                  total_weight |-> TotalWeight(cluster_edges),
                                  density      |-> <<Len(cluster_edges),
                                                     IF possible > 1 THEN possible ELSE 1>>]
                  IN  Components(Tail(nodes), edges, min_size, b.visited,
                                 IF n >= min_size THEN Append(clusters, cluster)
                                 ELSE clusters,
                                 order)

detect_clusters(graph, min_size, order) ==
    IF graph.nodes = <<>> THEN <<>>
    ELSE Components(graph.nodes, graph.edges, min_size, {}, <<>>, order)

-----------------------------------------------------------------------------
(* medicaid/shell.py: the ownership graph and its clusters *)

\* amounts of money are counted in thousands of dollars
SHELL_MIN_CLUSTER       == 5
SHELL_BILLING_THRESHOLD == 10000     \* 10_000_000 dollars

\* str(x)
Str(x) == IF x.t = "str" THEN x
          ELSE PyStr(<<[k |-> "repr", a |-> x.t, n |-> 0, of |-> x.v]>>)

\* str.lower(): the words of the model that hold an upper-case letter
LowerWord(w) ==
    CASE w = "Ali" -> "ali"
      [] w = "ALI" -> "ali"
      [] w = "Bob" -> "bob"
      [] OTHER     -> w

lower(s) == [i \in DOMAIN s |->
                IF s[i].k = "word" THEN [s[i] EXCEPT !.a = LowerWord(@)] ELSE s[i]]

principal_fields == <<"registered_agent", "officers", "owners", "principals",
                      "directors", "members", "managers">>

\* the principals one field contributes
FieldPrincipals(value) ==
    IF ~Truthy(value) THEN <<>>
    ELSE CASE value.t = "list" -> [i \in DOMAIN value.v |-> Str(value.v[i])]
           [] value.t = "str"  -> <<value>>
           [] value.t = "dict" -> LET strs == SelectSeq(value.v, LAMBDA kv : kv[2].t = "str")
                                  IN  [i \in DOMAIN strs |-> strs[i][2]]
           [] OTHER            -> <<>>

RECURSIVE CollectPrincipals(_, _)
CollectPrincipals(provider_data, r) ==
    IF r > Len(principal_fields) THEN <<>>
    ELSE FieldPrincipals(get(provider_data, principal_fields[r]))
            \o CollectPrincipals(provider_data, r + 1)

\* "Normalize and deduplicate": the first spelling of every principal
RECURSIVE Normalize(_, _, _)
Normalize(principals, seen, normalized) ==
    IF principals = <<>> THEN normalized
    ELSE LET p       == Head(principals)
             p_lower == strip(lower(p.v))
         IN  IF p_lower # <<>> /\ p_lower \notin seen
             THEN Normalize(Tail(principals), seen \cup {p_lower}, Append(normalized, p))
             ELSE Normalize(Tail(principals), seen, normalized)

extract_principals(provider_data) ==
    LET provider_name == get(provider_data, "provider_name")
        named == IF Truthy(provider_name)
                 THEN <<PyStr(<<Word("name", 4), ColonAtom>> \o Str(provider_name).v)>>
                 ELSE <<>>
    IN  Normalize(CollectPrincipals(provider_data, 1) \o named, {}, <<>>)

\* the body of the first loop of build_ownership_graph for one provider
ScanProvider(provider, st) ==
    LET provider_id == get(provider, "provider_id")
        principals  == extract_principals(provider)
        node == [provider_id       |-> provider_id,
                 provider_name     |-> get(provider, "provider_name"),
                 principals        |-> principals,
                 registration_date |-> get(provider, "registration_date"),
                 total_billed      |-> IF DictHas(provider, "total_billed")
                                       THEN DictGet(provider, "total_billed").v
                                       ELSE 0]
        entry == [provider_id |-> provider_id, principals |-> principals]
    IN  IF ~Truthy(provider_id) THEN [st EXCEPT !.rest = Tail(@)]
        ELSE [rest  |-> Tail(st.rest),
              nodes |-> Append(st.nodes, node),
              provider_principals |->
                IF \E i \in DOMAIN st.provider_principals :
                        st.provider_principals[i].provider_id = provider_id
                THEN [st.provider_principals EXCEPT
                        ![CHOOSE i \in DOMAIN st.provider_principals :
                            st.provider_principals[i].provider_id = provider_id] = entry]
                ELSE Append(st.provider_principals, entry)]

\* the first loop of build_ownership_graph: the nodes, and the principals of
\* every provider (a dict, in insertion order); st.rest are the providers still
\* to visit
RECURSIVE ScanProviders(_)
ScanProviders(st) ==
    IF st.rest = <<>> THEN st ELSE ScanProviders(ScanProvider(Head(st.rest), st))

\* principal_providers[principal.lower()].add(provider_id)
RECURSIVE AddPrincipals(_, _, _)
AddPrincipals(principals, provider_id, pp) ==
    IF principals = <<>> THEN pp
    ELSE LET key == lower(Head(principals).v)
         IN  IF \E i \in DOMAIN pp : pp[i].principal = key
             THEN AddPrincipals(Tail(principals), provider_id,
                    [pp EXCEPT ![CHOOSE i \in DOMAIN pp : pp[i].principal = key]
                                    .providers = @ \cup {provider_id}])
             ELSE AddPrincipals(Tail(principals), provider_id,
                    Append(pp, [principal |-> key, providers |-> {provider_id}]))

\* the loop over provider_principals.items(); st.rest are the items still to
\* visit
RECURSIVE PrincipalProviders(_)
PrincipalProviders(st) ==
    IF st.rest = <<>> THEN st.pp
    ELSE PrincipalProviders(
            [rest |-> Tail(st.rest),
             pp   |-> AddPrincipals(Head(st.rest).principals,
                                    Head(st.rest).provider_id, st.pp)])

\* the two nested loops over one provider_list: the edge of every pair gains
\* the principal; an edge that is new is appended in the order of the pairs.
\* (The pairs of one list are pairwise distinct.)
SharePairs(pairs, principal, edge_weights) ==
    LET keys  == {SortedPair(pairs[i][1], pairs[i][2]) : i \in DOMAIN pairs}
        known == {<<edge_weights[i].source, edge_weights[i].target>> :
                    i \in DOMAIN edge_weights}
        fresh == SelectSeq(pairs, LAMBDA pr : SortedPair(pr[1], pr[2]) \notin known)
    IN  [i \in DOMAIN edge_weights |->
            IF <<edge_weights[i].source, edge_weights[i].target>> \in keys
            THEN [edge_weights[i] EXCEPT
                    !.shared_principals = Append(@, principal), !.weight = @ + 1]
            ELSE edge_weights[i]]
        \o [i \in DOMAIN fresh |->
                [source |-> SortedPair(fresh[i][1], fresh[i][2])[1],
                 target |-> SortedPair(fresh[i][1], fresh[i][2])[2],
                 shared_principals |-> <<principal>>, weight |-> 1]]

\* the loop over principal_providers.items(); st.rest are the items still to
\* visit
RECURSIVE OwnershipEdges(_, _)
OwnershipEdges(st, order) ==
    IF st.rest = <<>> THEN st.edge_weights
    ELSE OwnershipEdges(
            [rest |-> Tail(st.rest),
             edge_weights |->
                IF Cardinality(Head(st.rest).providers) > 1
                THEN SharePairs(PairsOf(ListOf(Head(st.rest).providers, order)),
                                Head(st.rest).principal, st.edge_weights)
                ELSE st.edge_weights],
            order)

build_ownership_graph(providers, order) ==
    LET st    == ScanProviders([rest |-> providers, nodes |-> <<>>,
                                provider_principals |-> <<>>])
        pp    == PrincipalProviders([rest |-> st.provider_principals, pp |-> <<>>])
        edges == OwnershipEdges([rest |-> pp, edge_weights |-> <<>>], order)
    IN  [nodes |-> st.nodes, edges |-> edges,
         n_providers |-> Len(st.nodes), n_edges |-> Len(edges)]

\* node_lookup.get(provider_id): the last node that carries the identifier
NodeOf(nodes, provider_id) ==
    nodes[CHOOSE i \in DOMAIN nodes :
            /\ nodes[i].provider_id = provider_id
            /\ \A j \in DOMAIN nodes : nodes[j].provider_id = provider_id => j <= i]

\* all_principals[p.lower()] += 1 for the principals of one node
RECURSIVE CountPrincipals(_, _)
CountPrincipals(principals, all_principals) ==
    IF principals = <<>> THEN all_principals
    ELSE LET key == lower(Head(principals).v)
         IN  IF \E i \in DOMAIN all_principals : all_principals[i].principal = key
             THEN CountPrincipals(Tail(principals),
                    [all_principals EXCEPT
                        ![CHOOSE i \in DOMAIN all_principals :
                            all_principals[i].principal = key].count = @ + 1])
             ELSE CountPrincipals(Tail(principals),
                    Append(all_principals, [principal |-> key, count |-> 1]))

\* the loop over the members of a component: billing total and principal
\* counts; acc.rest are the members still to visit
RECURSIVE ClusterTotals(_, _)
ClusterTotals(nodes, acc) ==
    IF acc.rest = <<>> THEN acc
    ELSE ClusterTotals(nodes,
            [rest           |-> Tail(acc.rest),
             total_billed   |-> acc.total_billed
                                    + NodeOf(nodes, Head(acc.rest)).total_billed,
             all_principals |-> CountPrincipals(NodeOf(nodes, Head(acc.rest)).principals,
                                                acc.all_principals)])

\* the first n members of a list: l[:n]
Prefix(l, n) == SubSeq(l, 1, Min(n, Len(l)))

\* the body of the loop over node_ids for a node that starts a component
ShellComponent(node_id, nodes, strong_edges, st, order, uuids) ==
    LET b == Bfs(strong_edges, <<node_id>>, st.visited \cup {node_id}, <<>>, order)
        n == Len(b.component)
        t == ClusterTotals(nodes, [rest |-> b.component, total_billed |-> 0,
                                   all_principals |-> <<>>])
        majority == SelectSeq(t.all_principals, LAMBDA pc : 2 * pc.count >= n)
        shared == [i \in DOMAIN majority |-> majority[i].principal]
        cluster == [cluster_id        |-> uuids[Len(st.clusters) + 1],
                    providers         |-> b.component,
                    n_entities        |-> n,
                    shared_principals |-> Prefix(shared, 10),
                    combined_billing  |-> t.total_billed,
                    exceeds_threshold |-> t.total_billed >= SHELL_BILLING_THRESHOLD]
    IN  [rest     |-> Tail(st.rest),
         visited  |-> b.visited,
         clusters |-> IF n >= SHELL_MIN_CLUSTER
                      THEN Append(st.clusters, cluster) ELSE st.clusters]

\* the loop over node_ids; uuids are the values uuid.uuid4() returns, in turn;
\* st.rest are the nodes still to visit
RECURSIVE ShellComponents(_, _, _, _, _)
ShellComponents(nodes, strong_edges, st, order, uuids) ==
    IF st.rest = <<>> THEN st.clusters
    ELSE IF Head(st.rest) \in st.visited \/ Neighbours(strong_edges, Head(st.rest)) = {}
    THEN ShellComponents(nodes, strong_edges, [st EXCEPT !.rest = Tail(@)], order, uuids)
    ELSE ShellComponents(nodes, strong_edges,
            ShellComponent(Head(st.rest), nodes, strong_edges, st, order, uuids),
            order, uuids)

\* sorted(clusters, key=combined_billing, reverse=True): a stable sort, equal
\* keys keep their order
RECURSIVE SortByBilling(_)
SortByBilling(clusters) ==
    IF clusters = <<>> THEN <<>>
    ELSE LET first == CHOOSE i \in DOMAIN clusters :
                        /\ \A j \in DOMAIN clusters :
                                clusters[j].combined_billing <= clusters[i].combined_billing
                        /\ \A j \in 1..(i - 1) :
                                clusters[j].combined_billing < clusters[i].combined_billing
         IN  <<clusters[first]>>
                \o SortByBilling(SubSeq(clusters, 1, first - 1)
                                    \o SubSeq(clusters, first + 1, Len(clusters)))

detect_shell_clusters(graph, min_shared, order, uuids) ==
    IF graph.nodes = <<>> THEN <<>>
    ELSE LET strong_edges == SelectSeq(graph.edges, LAMBDA e : e.weight >= min_shared)
             with_id      == SelectSeq(graph.nodes, LAMBDA n : Truthy(n.provider_id))
             node_ids     == [i \in DOMAIN with_id |-> with_id[i].provider_id]
         IN  SortByBilling(ShellComponents(graph.nodes, strong_edges,
                    [rest |-> node_ids, visited |-> {}, clusters |-> <<>>],
                    order, uuids))


-----------------------------------------------------------------------------
(* The cluster detectors on bounded graphs *)

ClusterProviders == {ProviderIds[i] : i \in 1..4}

\* an edge of the provider graph between a and b; its weight follows from the pair
SharedPatientEdge(pair) ==
    [source |-> pair[1], target |-> pair[2],
     weight |-> 1 + ((IdRank(pair[1]) + IdRank(pair[2])) % 2), type |-> "shared_patient"]

ProviderPairs ==
    {pr \in ClusterProviders \X ClusterProviders : IdRank(pr[1]) < IdRank(pr[2])}

\* the graphs build_provider_graph returns for four providers: the nodes in
\* the iteration order of the process, the edges in the order of their pairs
ProviderGraph(pairs, order) ==
    LET all == SelectSeq(<< <<ProviderIds[1], ProviderIds[2]>>, <<ProviderIds[3], ProviderIds[4]>>,
                            <<ProviderIds[1], ProviderIds[3]>>, <<ProviderIds[2], ProviderIds[4]>>,
                            <<ProviderIds[2], ProviderIds[3]>>, <<ProviderIds[1], ProviderIds[4]>> >>,
                         LAMBDA pr : pr \in pairs)
    IN  [nodes |-> [i \in DOMAIN order |->
                        [provider_id |-> order[i], provider_name |-> PyNone,
                         claim_count |-> 1, total_billed |-> 1]],
         edges |-> [i \in DOMAIN all |-> SharedPatientEdge(all[i])]]

EmptyGraph == [nodes |-> <<>>, edges |-> <<>>]

MinSizes == {1, 2, 3}

\* the provider records given to build_ownership_graph: five entities, each
\* with a registered agent and possibly an owner
Agents == {Lit("Ali", 3), Lit("ALI", 3), Lit("Bob", 3)}
OwnerLists == {PyNone, PyList(<<Lit("Cy", 2)>>)}

Entity(i, agent, owners, total_billed) ==
    << <<"provider_id", ProviderIds[i]>>, <<"registered_agent", agent>>,
       <<"owners", owners>>, <<"total_billed", PyInt(total_billed)>> >>

EntityLists ==
    {[i \in 1..5 |-> Entity(i, a[i], o[i], 3000)] :
        a \in {f \in [1..5 -> Agents] : f[1] = Lit("Ali", 3)},
        o \in {f \in [1..5 -> OwnerLists] : f[1] # PyNone}}

\* a sample of the orders in which a process can iterate five identifiers
ShellOrders ==
    { [i \in 1..5 |-> ProviderIds[i]],
      [i \in 1..5 |-> ProviderIds[6 - i]],
      [i \in 1..5 |-> ProviderIds[((i + 1) % 5) + 1]] }

\* the values uuid.uuid4() can return
Uuids == {Lit("uuid-a", 6), Lit("uuid-b", 6)}

InitClusters ==
    /\ HAS_BLAKE3 \in BOOLEAN
    /\ fs = [p \in Paths |-> NoFile]
    /\ now = 1
    /\ emitted = <<>>
    /\ \/ \E pairs \in SUBSET ProviderPairs, order \in Orders(ClusterProviders),
             min_size \in MinSizes :
            call = Pending("detect_clusters",
                           [graph |-> ProviderGraph(pairs, order), min_size |-> min_size],
                           order)
       \/ \E min_size \in MinSizes :
            call = Pending("detect_clusters",
                           [graph |-> EmptyGraph, min_size |-> min_size], <<>>)
       \/ \E providers \in EntityLists, order \in ShellOrders, min_shared \in {1, 2},
             uuid \in Uuids :
            call = Pending("detect_shell_clusters",
                           [graph |-> build_ownership_graph(providers, order),
                            min_shared |-> min_shared, uuids |-> <<uuid>>],
                           order)

DetectClusters ==
    /\ call.op = "pending"
    /\ call.fn = "detect_clusters"
    /\ call' = [op |-> "detect_clusters", arg |-> call.arg, order |-> call.order,
                raised |-> "none",
                val |-> detect_clusters(call.arg.graph, call.arg.min_size, call.order)]
    /\ UNCHANGED <<HAS_BLAKE3, fs, now, emitted>>

DetectShellClusters ==
    /\ call.op = "pending"
    /\ call.fn = "detect_shell_clusters"
    /\ call' = [op |-> "detect_shell_clusters", arg |-> call.arg, order |-> call.order,
                raised |-> "none",
                val |-> detect_shell_clusters(call.arg.graph, call.arg.min_shared,
                                              call.order, call.arg.uuids)]
    /\ UNCHANGED <<HAS_BLAKE3, fs, now, emitted>>

NextClusters == DetectClusters \/ DetectShellClusters

SpecClusters == InitClusters /\ [][NextClusters]_vars

-----------------------------------------------------------------------------
(* C12 *)

\* the nodes reachable from the nodes of s over the given edges
RECURSIVE Reach(_, _)
Reach(edges, s) ==
    LET s1 == s \cup UNION {Neighbours(edges, n) : n \in s}
    IN  IF s1 = s THEN s ELSE Reach(edges, s1)

\* the connected components of the nodes of graph g over the edges of weight
\* at least threshold
ComponentsOf(g, threshold) ==
    LET strong == SelectSeq(g.edges, LAMBDA e : e.weight >= threshold)
    IN  {Reach(strong, {g.nodes[i].provider_id}) : i \in DOMAIN g.nodes}

\* the nodes of g without any incident edge
Isolated(g) ==
    {g.nodes[i].provider_id : i \in DOMAIN g.nodes} \
        UNION {{g.edges[i].source, g.edges[i].target} : i \in DOMAIN g.edges}

\* the clusters are exactly the components cs that have min_size members
ExactlyTheComponents(clusters, cs, min_size) ==
    /\ {Members(clusters[i].providers) : i \in DOMAIN clusters}
            = {c \in cs : Cardinality(c) >= min_size}
    /\ \A i, j \in DOMAIN clusters :
            i # j => Members(clusters[i].providers) \cap Members(clusters[j].providers) = {}
    /\ \A i \in DOMAIN clusters :
            Cardinality(Members(clusters[i].providers)) = Len(clusters[i].providers)

\* C12: detect_clusters and detect_shell_clusters return exactly the connected
\* components (over the edges of at least the threshold weight; detect_clusters
\* has no threshold and takes every edge) that have at least the minimum size:
\* pairwise disjoint, maximal, and without any node that has no incident edge.
C12_ClustersAreComponents ==
    /\ call.op = "detect_clusters" =>
        /\ ExactlyTheComponents(call.val, ComponentsOf(call.arg.graph, 0),
                                call.arg.min_size)
        /\ \A i \in DOMAIN call.val :
                Members(call.val[i].providers) \cap Isolated(call.arg.graph) = {}
    /\ call.op = "detect_shell_clusters" =>
        /\ ExactlyTheComponents(call.val,
                                ComponentsOf(call.arg.graph, call.arg.min_shared),
                                SHELL_MIN_CLUSTER)
        /\ \A i \in DOMAIN call.val :
                Members(call.val[i].providers) \cap Isolated(call.arg.graph) = {}

\* detect_clusters ran with min_size = 1 on a graph that has a node without edge
C12_Reached ==
    /\ call.op = "detect_clusters"
    /\ call.arg.min_size = 1
    /\ Isolated(call.arg.graph) # {}
    /\ call.arg.graph.edges # <<>>

-----------------------------------------------------------------------------
(* Clustering the same records twice *)

\* network.py: the provider graph of the receipts, then its clusters
ProviderClusters(receipts, min_size, order) ==
    detect_clusters(build_provider_graph(receipts, order), min_size, order)

\* shell.py 356-357: the ownership graph of the providers, then its clusters
ShellClusters(providers, min_shared, order, uuids) ==
    detect_shell_clusters(build_ownership_graph(providers, order), min_shared,
                          order, uuids)

\* claims of the three providers for one patient
OnePatientReceipts ==
    {ClaimReceipt(MEDICAID_INGEST, p, Lit("X", 1)) : p \in GraphProviders}

\* five entities with the same owner, each with one of two registered agents
OwnedEntityLists ==
    {[i \in 1..5 |-> Entity(i, a[i], PyList(<<Lit("Cy", 2)>>), 3000)] :
        a \in [1..5 -> {Lit("Ali", 3), Lit("Bob", 3)}]}

\* the records, and for each of the two runs the iteration order of its process
\* and the values uuid4 returns in it
InitTwice ==
    /\ HAS_BLAKE3 \in BOOLEAN
    /\ fs = [p \in Paths |-> NoFile]
    /\ now = 1
    /\ emitted = <<>>
    /\ \/ \E m \in 0..MaxReceipts, o1, o2 \in Orders(GraphProviders) :
          \E receipts \in [1..m -> OnePatientReceipts] :
            call = [op |-> "pending", fn |-> "provider_clusters", arg |-> receipts,
                    orders |-> <<o1, o2>>, uuids |-> <<>>, vals |-> <<>>]
       \/ \E providers \in OwnedEntityLists, o1, o2 \in ShellOrders, u1, u2 \in Uuids :
            call = [op |-> "pending", fn |-> "shell_clusters", arg |-> providers,
                    orders |-> <<o1, o2>>, uuids |-> <<u1, u2>>, vals |-> <<>>]

\* one run: the graph is built and the clusters are detected, in the process
\* of this run
ClusterRun ==
    /\ call.op = "pending"
    /\ Len(call.vals) < 2
    /\ LET run == Len(call.vals) + 1
           val == IF call.fn = "provider_clusters"
                  THEN ProviderClusters(call.arg, 3, call.orders[run])
                  ELSE ShellClusters(call.arg, 2, call.orders[run], <<call.uuids[run]>>)
       IN  call' = [call EXCEPT !.vals = Append(@, val),
                                !.op = IF run = 2 THEN "clustered_twice" ELSE @]
    /\ UNCHANGED <<HAS_BLAKE3, fs, now, emitted>>

NextTwice == ClusterRun

SpecTwice == InitTwice /\ [][NextTwice]_vars

\* C13: two runs over the same records return the same clusters: the same
\* list in the same order, the same member order, the same cluster ids.
C13_SameRecordsSameClusters ==
    call.op = "clustered_twice" => call.vals[1] = call.vals[2]

\* both runs returned a cluster
C13_Reached ==
    /\ call.op = "clustered_twice"
    /\ call.vals[1] # <<>>
    /\ call.vals[2] # <<>>

-----------------------------------------------------------------------------
(* core.py: get_risk_level.  A score is counted in hundredths: the float    *)
(* 0.2 is the score 20.                                                     *)

\* a variant whose first boundary is inclusive
get_risk_level_inclusive(score) ==
    IF score <= 20 THEN Lit("low", 3)
    ELSE IF score < 50 THEN Lit("medium", 6)
    ELSE IF score < 80 THEN Lit("high", 4)
    ELSE Lit("critical", 8)

get_risk_level(score) ==
    IF score < 20 THEN Lit("low", 3)
    ELSE IF score < 50 THEN Lit("medium", 6)
    ELSE IF score < 80 THEN Lit("high", 4)
    ELSE Lit("critical", 8)

ScoreMargin == 10    \* how far below 0.00 and above 1.00 the scores reach

Scores == (0 - ScoreMargin)..(100 + ScoreMargin)

\* two scores to classify, one after the other
InitRisk ==
    /\ HAS_BLAKE3 \in BOOLEAN
    /\ fs = [p \in Paths |-> NoFile]
    /\ now = 1
    /\ emitted = <<>>
    /\ \E s1, s2 \in Scores :
        call = [op |-> "pending", fn |-> "get_risk_level", arg |-> <<s1, s2>>,
                vals |-> <<>>]

GetRiskLevel ==
    /\ call.op = "pending"
    /\ call.fn = "get_risk_level"
    /\ LET k == Len(call.vals) + 1
       IN  call' = [call EXCEPT !.vals = Append(@, get_risk_level(call.arg[k])),
                                !.op = IF k = 2 THEN "get_risk_level" ELSE @]
    /\ UNCHANGED <<HAS_BLAKE3, fs, now, emitted>>

NextRisk == GetRiskLevel

SpecRisk == InitRisk /\ [][NextRisk]_vars

\* the levels in ascending order
LevelRank(level) ==
    CASE level = Lit("low", 3)      -> 1
      [] level = Lit("medium", 6)   -> 2
      [] level = Lit("high", 4)     -> 3
      [] level = Lit("critical", 8) -> 4

\* C15: get_risk_level gives every score exactly one of the four levels, low
\* below 0.2, medium from 0.2 and below 0.5, high from 0.5 and below 0.8,
\* critical from 0.8; the level depends on the score alone and never decreases
\* when the score increases.
C15_LevelsPartitionScores ==
    call.op = "get_risk_level" =>
        /\ \A k \in 1..2 :
            LET s == call.arg[k]
                l == call.vals[k]
            IN  /\ l \in {Lit("low", 3), Lit("medium", 6), Lit("high", 4), Lit("critical", 8)}
                /\ (l = Lit("low", 3))      <=> (s < 20)
                /\ (l = Lit("medium", 6))   <=> (20 <= s /\ s < 50)
                /\ (l = Lit("high", 4))     <=> (50 <= s /\ s < 80)
                /\ (l = Lit("critical", 8)) <=> (80 <= s)
        /\ call.arg[1] = call.arg[2] => call.vals[1] = call.vals[2]
        /\ call.arg[1] <= call.arg[2] => LevelRank(call.vals[1]) <= LevelRank(call.vals[2])

\* the two calls classified a boundary score and the score just below it
C15_Reached ==
    /\ call.op = "get_risk_level"
    /\ call.arg[1] + 1 = call.arg[2]
    /\ call.arg[2] \in {20, 50, 80}
    /\ call.vals[1] # call.vals[2]

-----------------------------------------------------------------------------
(* medicaid/shell.py: flag_shell_network and analyze_shell_networks *)

SHELL_REGISTRATION_WINDOW == 365

\* flag_shell_network(cluster, billing_total); billing_total is None or a
\* number.  The risk score is counted in hundredths.
flag_shell_network(cluster, billing_total) ==
    LET total == IF billing_total # PyNone THEN billing_total.v
                 ELSE cluster.combined_billing
        n_entities == cluster.n_entities
        size_factor ==
            IF n_entities >= 40 THEN 40
            ELSE IF n_entities >= 20 THEN 30
            ELSE IF n_entities >= 10 THEN 20
            ELSE IF n_entities >= SHELL_MIN_CLUSTER THEN 10
            ELSE 0
        billing_factor ==
            IF total >= SHELL_BILLING_THRESHOLD * 10 THEN 40
            ELSE IF total >= SHELL_BILLING_THRESHOLD THEN 30
            ELSE IF 2 * total >= SHELL_BILLING_THRESHOLD THEN 20
            ELSE IF 10 * total >= SHELL_BILLING_THRESHOLD THEN 10
            ELSE 0
        concentration == IF Len(cluster.shared_principals) <= 2 THEN 20 ELSE 0
        risk_score == size_factor + billing_factor + concentration
    IN  [cluster       |-> cluster,
         billing_total |-> total,
         risk_score    |-> risk_score,
         risk_level    |-> get_risk_level(risk_score),
         flagged       |-> \/ total >= SHELL_BILLING_THRESHOLD
                           \/ n_entities >= SHELL_MIN_CLUSTER * 2]

\* a registration date datetime.fromisoformat accepts: the ISO form of a day
IsIsoDate(x) == x.t = "str" /\ Len(x.v) = 1 /\ x.v[1].k = "iso"

LowerPrincipals(provider) ==
    {lower(p.v) : p \in Members(extract_principals(provider))}

compute_registration_burst(provider_id, providers, window_days) ==
    LET found == {i \in DOMAIN providers : get(providers[i], "provider_id") = provider_id}
    IN  IF found = {} THEN 0
        ELSE LET target == providers[CHOOSE i \in found : \A j \in found : i <= j]
                 target_principals == LowerPrincipals(target)
                 target_date == get(target, "registration_date")
             IN  IF ~Truthy(target_date) \/ target_principals = {} THEN 0
                 ELSE IF ~IsIsoDate(target_date) THEN 0
                 ELSE Cardinality(
                        {i \in DOMAIN providers :
                            LET reg_date == get(providers[i], "registration_date")
                            IN  /\ get(providers[i], "provider_id") # provider_id
                                /\ Truthy(reg_date)
                                /\ IsIsoDate(reg_date)
                                /\ target_date.v[1].n - (window_days \div 2) <= reg_date.v[1].n
                                /\ reg_date.v[1].n <= target_date.v[1].n + (window_days \div 2)
                                /\ target_principals \cap LowerPrincipals(providers[i]) # {}})

SHELL_DETECTION == Lit("shell_detection", 15)

\* the body of the loop over the clusters: the data of one receipt
ShellReceiptData(cluster, providers) ==
    LET flagged   == flag_shell_network(cluster, PyNone)
        reg_burst == IF cluster.providers # <<>>
                     THEN compute_registration_burst(cluster.providers[1], providers,
                                                     SHELL_REGISTRATION_WINDOW)
                     ELSE 0
    IN  << <<"cluster_id", cluster.cluster_id>>,
           <<"n_entities", PyInt(cluster.n_entities)>>,
           <<"shared_principals",
             PyList([i \in DOMAIN cluster.shared_principals |->
                        PyStr(cluster.shared_principals[i])])>>,
           <<"combined_billing", PyInt(cluster.combined_billing)>>,
           <<"registration_burst", PyInt(reg_burst)>>,
           <<"risk_level", flagged.risk_level>>,
           <<"risk_score", PyFloat(flagged.risk_score)>>,
           <<"exceeds_billing_threshold",
             PyBool(cluster.combined_billing >= SHELL_BILLING_THRESHOLD)>>,
           <<"providers", PyList(Prefix(cluster.providers, 10))>> >>

\* the loop over the clusters: one shell_detection receipt each; ios[i] is the
\* outcome of the i-th append
RECURSIVE EmitShellReceipts(_, _, _, _, _, _, _)
EmitShellReceipts(clusters, providers, tenant_id, files, ts_now, ios, done) ==
    IF clusters = <<>> THEN [files |-> files, val |-> done]
    ELSE LET r == emit_receipt(files, ts_now, SHELL_DETECTION,
                               ShellReceiptData(Head(clusters), providers),
                               tenant_id, ios[Len(done) + 1])
         IN  EmitShellReceipts(Tail(clusters), providers, tenant_id, r.files, ts_now,
                               ios, Append(done, r.val))

analyze_shell_networks(files, ts_now, providers, tenant_id, order, uuids, ios) ==
    EmitShellReceipts(ShellClusters(providers, 2, order, uuids), providers, tenant_id,
                      files, ts_now, ios, <<>>)

-----------------------------------------------------------------------------
(* Shell analysis of entities that share principals *)

EntityCounts == {SHELL_MIN_CLUSTER, 2 * SHELL_MIN_CLUSTER, AliEntities}

\* what each entity has billed, in thousands of dollars
EntityBillings == {0, 30, 150, 300, 3000}

\* n entities with one registered agent; with owners they share a second principal
AliNetwork(n, owners, total_billed) ==
    [i \in 1..n |-> Entity(i, Lit("Ali", 3), owners, total_billed)]

InitShell ==
    /\ HAS_BLAKE3 \in BOOLEAN
    /\ fs = [p \in Paths |-> NoFile]
    /\ now = 1
    /\ emitted = <<>>
    /\ \E n \in EntityCounts, owners \in OwnerLists, total_billed \in EntityBillings,
          io \in IOOutcomes, uuid \in Uuids, reversed \in BOOLEAN :
            call = [op |-> "pending", fn |-> "analyze_shell_networks",
                    arg |-> AliNetwork(n, owners, total_billed),
                    order |-> [i \in 1..n |-> ProviderIds[IF reversed THEN n + 1 - i ELSE i]],
                    uuids |-> <<uuid>>, ios |-> <<io>>]

AnalyzeShellNetworks ==
    /\ call.op = "pending"
    /\ call.fn = "analyze_shell_networks"
    /\ LET r == analyze_shell_networks(fs, now, call.arg, TENANT_ID, call.order,
                                       call.uuids, call.ios)
       IN  /\ fs' = r.files
           /\ emitted' = emitted \o [i \in DOMAIN r.val |->
                                        [receipt |-> r.val[i], io |-> call.ios[i]]]
           /\ call' = [op |-> "analyze_shell_networks", arg |-> call.arg,
                       order |-> call.order, raised |-> "none", val |-> r.val]
    /\ UNCHANGED <<HAS_BLAKE3, now>>

NextShell == AnalyzeShellNetworks

SpecShell == InitShell /\ [][NextShell]_vars

\* the entities of the call all name one common principal
ShareOnePrincipal(providers) ==
    \E p \in LowerPrincipals(providers[1]) :
        \A i \in DOMAIN providers : p \in LowerPrincipals(providers[i])

\* C14: shell analysis of 41 entities that share one principal returns one
\* cluster of 41 entities, and its risk level is "critical" whatever the
\* entities have billed.
C14_AliNetworkIsCritical ==
    (/\ call.op = "analyze_shell_networks"
     /\ Len(call.arg) = AliEntities
     /\ ShareOnePrincipal(call.arg))
        => /\ Len(call.val) = 1
           /\ DictGet(call.val[1], "n_entities") = PyInt(AliEntities)
           /\ DictGet(call.val[1], "risk_level") = Lit("critical", 8)

\* the analysis of 41 entities returned one cluster of 41
C14_Reached ==
    /\ call.op = "analyze_shell_networks"
    /\ Len(call.arg) = AliEntities
    /\ Len(call.val) = 1
    /\ DictGet(call.val[1], "n_entities") = PyInt(AliEntities)


-----------------------------------------------------------------------------
(* C16: the fraud score of a compression ratio *)

\* ratios and baselines are counted in hundredths
COMPRESSION_BASELINE_MEDICAID == 65

COMPRESSION_BASELINE_VOUCHER == 70

COMPRESSION_FRAUD_THRESHOLD == 40

\* a score is the quotient num / den of two integers, den > 0
Quotient(num, den) == [num |-> num, den |-> den]

Leq(x, y) == x.num * y.den <= y.num * x.den

\* min(a, b) and max(a, b) of Python: the first argument unless the second is
\* strictly smaller (larger)
PyMin(a, b) == IF Leq(a, b) THEN a ELSE b

PyMax(a, b) == IF Leq(b, a) THEN a ELSE b

\* the score without the inversion: a higher ratio gives a higher score
compression_fraud_score_direct(ratio, baseline) ==
    IF ratio <= 0 THEN Quotient(1, 1)
    ELSE IF ratio >= baseline THEN Quotient(0, 1)
    ELSE IF ratio <= COMPRESSION_FRAUD_THRESHOLD THEN Quotient(1, 1)
    ELSE LET range_size == baseline - COMPRESSION_FRAUD_THRESHOLD
             position   == ratio - COMPRESSION_FRAUD_THRESHOLD
             score      == Quotient(position, range_size)
         IN  PyMax(Quotient(0, 1), PyMin(Quotient(1, 1), score))

compression_fraud_score(ratio, baseline) ==
    IF ratio <= 0 THEN Quotient(1, 1)
    ELSE IF ratio >= baseline THEN Quotient(0, 1)
    ELSE IF ratio <= COMPRESSION_FRAUD_THRESHOLD THEN Quotient(1, 1)
    ELSE LET range_size == baseline - COMPRESSION_FRAUD_THRESHOLD
             position   == ratio - COMPRESSION_FRAUD_THRESHOLD
             \* 1.0 - (position / range_size)
             score      == Quotient(range_size - position, range_size)
         IN  PyMax(Quotient(0, 1), PyMin(Quotient(1, 1), score))

\* the ratios of the model reach from below 0 to above 1
RatioMargin == 5

Ratios == (0 - RatioMargin)..(100 + RatioMargin)

Baselines == {30, COMPRESSION_FRAUD_THRESHOLD, COMPRESSION_FRAUD_THRESHOLD + 1,
              COMPRESSION_BASELINE_MEDICAID, COMPRESSION_BASELINE_VOUCHER, 100}

\* two calls with one baseline
InitScore ==
    /\ HAS_BLAKE3 = TRUE
    /\ fs = [p \in Paths |-> NoFile]
    /\ now = 1
    /\ emitted = <<>>
    /\ \E r1, r2 \in Ratios, baseline \in Baselines :
        call = [op |-> "pending", fn |-> "compression_fraud_score",
                arg |-> <<r1, r2>>, baseline |-> baseline, vals |-> <<>>]

CompressionFraudScore ==
    /\ call.op = "pending"
    /\ call.fn = "compression_fraud_score"
    /\ LET k == Len(call.vals) + 1
       IN  call' = [call EXCEPT
                        !.vals = Append(@, compression_fraud_score(call.arg[k],
                                                                   call.baseline)),
                        !.op = IF k = 2 THEN "compression_fraud_score" ELSE @]
    /\ UNCHANGED <<HAS_BLAKE3, fs, now, emitted>>

NextScore == CompressionFraudScore

SpecScore == InitScore /\ [][NextScore]_vars

\* C16: with a baseline above the floor 0.40 the score is 0 from the baseline
\* on, 1 up to the floor, and 1 - (ratio - floor)/(baseline - floor) between
\* them; it lies in [0, 1] and a higher ratio never has a higher score.
C16_ScoreFallsWithRatio ==
    (/\ call.op = "compression_fraud_score"
     /\ call.baseline > COMPRESSION_FRAUD_THRESHOLD)
        => /\ \A k \in 1..2 :
                LET ratio == call.arg[k]
                    score == call.vals[k]
                    span  == call.baseline - COMPRESSION_FRAUD_THRESHOLD
                IN  /\ score.den > 0
                    /\ ratio >= call.baseline => score.num = 0
                    /\ ratio <= COMPRESSION_FRAUD_THRESHOLD => score.num = score.den
                    /\ (ratio > COMPRESSION_FRAUD_THRESHOLD /\ ratio < call.baseline)
                        => score.num * span
                            = (span - (ratio - COMPRESSION_FRAUD_THRESHOLD)) * score.den
                    /\ 0 <= score.num /\ score.num <= score.den
           /\ call.arg[1] <= call.arg[2] => Leq(call.vals[2], call.vals[1])

\* two ratios strictly between the floor and the baseline were scored, and the
\* higher one has the strictly lower score
C16_Reached ==
    /\ call.op = "compression_fraud_score"
    /\ call.baseline > COMPRESSION_FRAUD_THRESHOLD
    /\ COMPRESSION_FRAUD_THRESHOLD < call.arg[1]
    /\ call.arg[1] < call.arg[2]
    /\ call.arg[2] < call.baseline
    /\ ~Leq(call.vals[1], call.vals[2])


-----------------------------------------------------------------------------
(* medicaid/ingest.py and voucher/ingest.py *)

REQUIRED_CLAIM_FIELDS == <<"claim_id", "provider_id", "billed_amount">>

REQUIRED_TXN_FIELDS == <<"txn_id", "amount">>

\* the length of a field name
NameLen(field) ==
    CASE field = "claim_id"      -> 8
      [] field = "provider_id"   -> 11
      [] field = "billed_amount" -> 13
      [] field = "txn_id"        -> 6
      [] field = "amount"        -> 6
      [] field = "service_date"  -> 12
      [] field = "txn_date"      -> 8

\* what a validator hands back: (valid, reason), or the exception it raises
Verdict(valid, reason) == [raised |-> "none", valid |-> valid, reason |-> reason]

Raises(exception) == [raised |-> exception, valid |-> FALSE, reason |-> PyStr(<<>>)]

\* isinstance(x, (int, float)); bool is a subclass of int
IsNumeric(x) == x.t \in {"int", "float", "bool"}

\* the number a numeric value counts as
NumberOf(x) == IF x.t = "bool" THEN (IF x.v THEN 1 ELSE 0) ELSE x.v

\* datetime.fromisoformat(value.replace('Z', '+00:00')) for a truthy value:
\* "none" when it parses; ValueError when the text is no ISO date;
\* AttributeError when the value has no replace method; TypeError when it has
\* one that takes no strings (bytes, date and datetime objects)
ParseDate(value) ==
    CASE value.t = "str"              -> IF IsIsoDate(value) THEN "none" ELSE "ValueError"
      [] value.t \in {"bytes", "obj"} -> "TypeError"
      [] OTHER                        -> "AttributeError"

\* the checks the two validators share; `field not in record` raises
\* TypeError when the record is None
ValidateRecord(record, required, id_fields, amount_field, date_field) ==
    IF record.t # "dict" THEN Raises("TypeError")
    ELSE LET missing == SelectSeq(required, LAMBDA f : ~DictHas(record.v, f))
             empty   == SelectSeq(id_fields, LAMBDA f : ~Truthy(get(record.v, f)))
             amount  == get(record.v, amount_field)
             date    == get(record.v, date_field)
         IN  IF missing # <<>>
             THEN Verdict(FALSE, PyStr(<<Word("Missing required field: ", 24),
                                         Word(missing[1], NameLen(missing[1]))>>))
             ELSE IF empty # <<>>
             THEN Verdict(FALSE, PyStr(<<Word(empty[1], NameLen(empty[1])),
                                         Word(" cannot be empty", 16)>>))
             ELSE IF ~IsNumeric(amount)
             THEN Verdict(FALSE, PyStr(<<Word(amount_field, NameLen(amount_field)),
                                         Word(" must be numeric", 16)>>))
             ELSE IF NumberOf(amount) < 0
             THEN Verdict(FALSE, PyStr(<<Word(amount_field, NameLen(amount_field)),
                                         Word(" cannot be negative", 19)>>))
             ELSE IF ~(DictHas(record.v, date_field) /\ Truthy(date))
             THEN Verdict(TRUE, Lit("valid", 5))
             ELSE CASE ParseDate(date) = "none" -> Verdict(TRUE, Lit("valid", 5))
                    [] ParseDate(date) = "TypeError" -> Raises("TypeError")
                    [] OTHER ->
                        Verdict(FALSE,
                                PyStr(<<Word("Invalid ", 8),
                                        Word(date_field, NameLen(date_field)),
                                        Word(" format: ", 9)>> \o Str(date).v))

validate_claim(claim) ==
    ValidateRecord(claim, REQUIRED_CLAIM_FIELDS, <<"claim_id", "provider_id">>,
                   "billed_amount", "service_date")

validate_transaction(txn) ==
    ValidateRecord(txn, REQUIRED_TXN_FIELDS, <<"txn_id">>, "amount", "txn_date")

MEDICAID_BATCH_INGEST == Lit("medicaid_batch_ingest", 21)

VOUCHER_INGEST == Lit("voucher_ingest", 14)

VOUCHER_BATCH_INGEST == Lit("voucher_batch_ingest", 20)

\* what ingest_claim and ingest_transaction hand back: the receipt, or the
\* exception raised and its message
Ingested(files, r) ==
    [files |-> r.files, raised |-> "none", val |-> r.val, message |-> PyStr(<<>>)]

Refused(files, exception, message) ==
    [files |-> files, raised |-> exception, val |-> PyNone, message |-> message]

\* ingest_claim(claim, tenant_id) at instant ts_now, the storage layer
\* answering io
ingest_claim(files, ts_now, claim, tenant_id, io) ==
    LET v == validate_claim(claim)
    IN  IF v.raised # "none" THEN Refused(files, v.raised, PyStr(<<>>))
        ELSE IF ~v.valid
        THEN Refused(files, "ValueError",
                     PyStr(<<Word("Invalid claim: ", 15)>> \o v.reason.v))
        ELSE LET receipt_data ==
                    << <<"claim_hash", dual_hash(Str(claim))>>,
                       <<"claim_id", get(claim.v, "claim_id")>>,
                       <<"provider_id", get(claim.v, "provider_id")>>,
                       <<"provider_name", get(claim.v, "provider_name")>>,
                       <<"aihp_flag",
                         PyBool(Truthy(get(claim.v, "patient_tribal_affiliation")))>>,
                       <<"billed_amount", get(claim.v, "billed_amount")>>,
                       <<"paid_amount", get(claim.v, "paid_amount")>>,
                       <<"service_type", get(claim.v, "service_type")>>,
                       <<"facility_type", get(claim.v, "facility_type")>> >>
             IN  Ingested(files, emit_receipt(files, ts_now, MEDICAID_INGEST,
                                              receipt_data, tenant_id, io))

ingest_transaction(files, ts_now, txn, tenant_id, io) ==
    LET v == validate_transaction(txn)
    IN  IF v.raised # "none" THEN Refused(files, v.raised, PyStr(<<>>))
        ELSE IF ~v.valid
        THEN Refused(files, "ValueError",
                     PyStr(<<Word("Invalid transaction: ", 21)>> \o v.reason.v))
        ELSE LET receipt_data ==
                    << <<"txn_hash", dual_hash(Str(txn))>>,
                       <<"txn_id", get(txn.v, "txn_id")>>,
                       <<"account_id", get(txn.v, "account_id")>>,
                       <<"merchant_id", get(txn.v, "merchant_id")>>,
                       <<"merchant_name", get(txn.v, "merchant_name")>>,
                       <<"merchant_category_code",
                         get(txn.v, "merchant_category_code")>>,
                       <<"amount", get(txn.v, "amount")>>,
                       <<"description", get(txn.v, "description")>> >>
             IN  Ingested(files, emit_receipt(files, ts_now, VOUCHER_INGEST,
                                              receipt_data, tenant_id, io))

\* the state of the loop of batch_ingest before its first iteration; emits are
\* the emit_receipt calls made, with the answer of the storage layer
BatchStart(files, records) ==
    [rest |-> records, i |-> 0, files |-> files, receipts |-> <<>>, hashes |-> <<>>,
     errors |-> <<>>, emits |-> <<>>, raised |-> "none"]

\* one pass of the loop, r being what the ingest of the record handed back:
\* a ValueError is recorded, any other exception leaves the loop
BatchStep(st, r, hash_field, io) ==
    CASE r.raised = "none" ->
            [st EXCEPT !.rest = Tail(@), !.i = @ + 1, !.files = r.files,
                       !.receipts = Append(@, r.val),
                       !.hashes = Append(@, DictGet(r.val, hash_field)),
                       !.emits = Append(@, [receipt |-> r.val, io |-> io])]
      [] r.raised = "ValueError" ->
            [st EXCEPT !.rest = Tail(@), !.i = @ + 1,
                       !.errors = Append(@, PyDict(<< <<"index", PyInt(st.i)>>,
                                                      <<"error", r.message>> >>))]
      [] OTHER ->
            [st EXCEPT !.rest = <<>>, !.raised = r.raised]

\* the loop over enumerate(claims); the k-th emit_receipt call reads the
\* instant times[k] and is answered ios[k]
RECURSIVE IngestClaims(_, _, _, _)
IngestClaims(st, times, tenant_id, ios) ==
    IF st.rest = <<>> THEN st
    ELSE IngestClaims(
            BatchStep(st, ingest_claim(st.files, times[Len(st.emits) + 1], Head(st.rest),
                                       tenant_id, ios[Len(st.emits) + 1]),
                      "claim_hash", ios[Len(st.emits) + 1]),
            times, tenant_id, ios)

RECURSIVE IngestTransactions(_, _, _, _)
IngestTransactions(st, times, tenant_id, ios) ==
    IF st.rest = <<>> THEN st
    ELSE IngestTransactions(
            BatchStep(st, ingest_transaction(st.files, times[Len(st.emits) + 1],
                                             Head(st.rest), tenant_id,
                                             ios[Len(st.emits) + 1]),
                      "txn_hash", ios[Len(st.emits) + 1]),
            times, tenant_id, ios)

\* what batch_ingest hands back: the batch receipt r, after the emits of the loop
Batched(st, r, io) ==
    [files |-> r.files, raised |-> "none", val |-> r.val,
     emits |-> Append(st.emits, [receipt |-> r.val, io |-> io])]

Aborted(st) ==
    [files |-> st.files, raised |-> st.raised, val |-> PyNone, emits |-> st.emits]

\* sum(r.get("amount", 0) for r in receipts)
RECURSIVE SumAmounts(_)
SumAmounts(receipts) ==
    IF receipts = <<>> THEN 0
    ELSE (IF DictHas(Head(receipts), "amount")
          THEN NumberOf(DictGet(Head(receipts), "amount")) ELSE 0)
            + SumAmounts(Tail(receipts))

\* medicaid batch_ingest(claims, tenant_id)
batch_ingest(files, times, claims, tenant_id, ios) ==
    IF claims = <<>>
    THEN Batched(BatchStart(files, claims),
                 emit_receipt(files, times[1], MEDICAID_BATCH_INGEST,
                              << <<"claim_count", PyInt(0)>>,
                                 <<"merkle_root", merkle(<<>>)>>,
                                 <<"claims", PyList(<<>>)>> >>,
                              tenant_id, ios[1]),
                 ios[1])
    ELSE LET st == IngestClaims(BatchStart(files, claims), times, tenant_id, ios)
             k  == Len(st.emits) + 1
             batch_data ==
                << <<"claim_count", PyInt(Len(st.receipts))>>,
                   <<"error_count", PyInt(Len(st.errors))>>,
                   <<"merkle_root", merkle(st.hashes)>>,
                   <<"claim_hashes", PyList(st.hashes)>>,
                   <<"errors", IF st.errors # <<>> THEN PyList(st.errors) ELSE PyNone>> >>
         IN  IF st.raised # "none" THEN Aborted(st)
             ELSE Batched(st, emit_receipt(st.files, times[k], MEDICAID_BATCH_INGEST,
                                           batch_data, tenant_id, ios[k]),
                          ios[k])

\* voucher batch_ingest(txns, tenant_id)
voucher_batch_ingest(files, times, txns, tenant_id, ios) ==
    IF txns = <<>>
    THEN Batched(BatchStart(files, txns),
                 emit_receipt(files, times[1], VOUCHER_BATCH_INGEST,
                              << <<"txn_count", PyInt(0)>>,
                                 <<"merkle_root", merkle(<<>>)>>,
                                 <<"txns", PyList(<<>>)>> >>,
                              tenant_id, ios[1]),
                 ios[1])
    ELSE LET st == IngestTransactions(BatchStart(files, txns), times, tenant_id, ios)
             k  == Len(st.emits) + 1
             batch_data ==
                << <<"txn_count", PyInt(Len(st.receipts))>>,
                   <<"error_count", PyInt(Len(st.errors))>>,
                   <<"total_amount", PyInt(SumAmounts(st.receipts))>>,
                   <<"merkle_root", merkle(st.hashes)>>,
                   <<"txn_hashes", PyList(st.hashes)>>,
                   <<"errors", IF st.errors # <<>> THEN PyList(st.errors) ELSE PyNone>> >>
         IN  IF st.raised # "none" THEN Aborted(st)
             ELSE Batched(st, emit_receipt(st.files, times[k], VOUCHER_BATCH_INGEST,
                                           batch_data, tenant_id, ios[k]),
                          ios[k])


-----------------------------------------------------------------------------
(* batch_ingest on bounded lists of records *)

MaxBatch == 3    \* length of a list given to batch_ingest

\* a claim of provider i for patient X
GoodClaim(i) ==
    PyDict(<< <<"claim_id", PyStr(<<[k |-> "word", a |-> "C", n |-> 2, of |-> i]>>)>>,
              <<"provider_id", ProviderIds[i]>>,
              <<"billed_amount", PyInt(100)>>,
              <<"patient_id", Lit("X", 1)>> >>)

\* the claim with one field replaced or added
With(record, field, value) == PyDict(DictSet(record.v, field, value))

Without(record, field) == PyDict(SelectSeq(record.v, LAMBDA kv : kv[1] # field))

ClaimRecords ==
    { GoodClaim(1),
      With(GoodClaim(2), "service_date", PyStr(<<Iso(1)>>)),
      With(GoodClaim(1), "billed_amount", PyInt(0 - 1)),
      Without(GoodClaim(1), "claim_id"),
      With(GoodClaim(1), "billed_amount", Lit("12", 2)),
      With(GoodClaim(1), "service_date", Lit("yesterday", 9)),
      With(GoodClaim(1), "service_date", ADate),
      PyNone }

GoodTxn(i, amount) ==
    PyDict(<< <<"txn_id", PyStr(<<[k |-> "word", a |-> "T", n |-> 2, of |-> i]>>)>>,
              <<"amount", amount>>,
              <<"account_id", Lit("A", 1)>> >>)

TxnRecords ==
    { GoodTxn(1, PyInt(5)),
      GoodTxn(2, PyBool(TRUE)),
      GoodTxn(1, PyInt(0 - 1)),
      Without(GoodTxn(1, PyInt(5)), "txn_id"),
      GoodTxn(1, Lit("12", 2)),
      With(GoodTxn(1, PyInt(5)), "txn_date", Lit("yesterday", 9)),
      With(GoodTxn(1, PyInt(5)), "txn_date", ADate),
      PyNone }

\* the instants the emit_receipt calls of one batch read: the clock stands
\* still, or ticks after the first call
Clocks == { [k \in 1..(MaxBatch + 1) |-> 1],
            [k \in 1..(MaxBatch + 1) |-> IF k = 1 THEN 1 ELSE 2] }

\* the ledger before the call: absent, or holding one receipt
Ledgers == { [p \in Paths |-> NoFile],
             [p \in Paths |-> IF p = RECEIPTS_LEDGER_PATH
                              THEN [exists |-> TRUE, lines |-> <<dumps(ReceiptAB, FALSE)>>]
                              ELSE NoFile] }

InitBatch ==
    /\ HAS_BLAKE3 = TRUE
    /\ fs \in Ledgers
    /\ now = 1
    /\ emitted = <<>>
    /\ \E n \in 0..MaxBatch :
        \/ \E claims \in [1..n -> ClaimRecords], ios \in [1..(n + 1) -> IOOutcomes],
              times \in Clocks :
                call = [op |-> "pending", fn |-> "medicaid.batch_ingest",
                        arg |-> claims, ios |-> ios, times |-> times]
        \/ \E txns \in [1..n -> TxnRecords], ios \in [1..(n + 1) -> IOOutcomes],
              times \in Clocks :
                call = [op |-> "pending", fn |-> "voucher.batch_ingest",
                        arg |-> txns, ios |-> ios, times |-> times]

\* the call returns r, or leaves with the exception r.raised
Returned(fn, r) ==
    /\ fs' = r.files
    /\ emitted' = emitted \o r.emits
    /\ now' = IF r.emits = <<>> THEN now ELSE call.times[Len(r.emits)]
    /\ call' = [op |-> fn, arg |-> call.arg, ios |-> call.ios,
                raised |-> r.raised, val |-> r.val]
    /\ UNCHANGED HAS_BLAKE3

BatchIngestClaims ==
    /\ call.op = "pending"
    /\ call.fn = "medicaid.batch_ingest"
    /\ Returned("medicaid.batch_ingest",
                batch_ingest(fs, call.times, call.arg, TENANT_ID, call.ios))

BatchIngestTransactions ==
    /\ call.op = "pending"
    /\ call.fn = "voucher.batch_ingest"
    /\ Returned("voucher.batch_ingest",
                voucher_batch_ingest(fs, call.times, call.arg, TENANT_ID, call.ios))

NextBatch == BatchIngestClaims \/ BatchIngestTransactions

SpecBatch == InitBatch /\ [][NextBatch]_vars

BatchReturned == call.op \in {"medicaid.batch_ingest", "voucher.batch_ingest"}

\* the record passes the validator of its domain
IsValidRecord(fn, record) ==
    LET v == IF fn = "medicaid.batch_ingest" THEN validate_claim(record)
             ELSE validate_transaction(record)
    IN  v.raised = "none" /\ v.valid

\* the positions of the valid and of the invalid records of a list, ascending
ValidAt(fn, records) ==
    SelectSeq([i \in DOMAIN records |-> i], LAMBDA i : IsValidRecord(fn, records[i]))

InvalidAt(fn, records) ==
    SelectSeq([i \in DOMAIN records |-> i], LAMBDA i : ~IsValidRecord(fn, records[i]))

\* the hash of a record: dual_hash(str(record))
RecordHash(record) == dual_hash(Str(record))

RECURSIVE SumOf(_)
SumOf(numbers) == IF numbers = <<>> THEN 0 ELSE Head(numbers) + SumOf(Tail(numbers))

\* C17: batch_ingest never aborts; its receipt counts the valid and the
\* invalid records, the two counts sum to the length of the list, every
\* invalid record is reported with its index and a reason, and only the valid
\* records enter the hashes and the total.
C17_BatchCountsEveryRecord ==
    BatchReturned =>
        LET medicaid == call.op = "medicaid.batch_ingest"
            valid    == ValidAt(call.op, call.arg)
            invalid  == InvalidAt(call.op, call.arg)
            count    == IF medicaid THEN "claim_count" ELSE "txn_count"
            hashes   == IF medicaid THEN "claim_hashes" ELSE "txn_hashes"
        IN  /\ call.raised = "none"
            /\ DictHas(call.val, count)
            /\ DictGet(call.val, count) = PyInt(Len(valid))
            /\ DictHas(call.val, "error_count")
            /\ DictGet(call.val, "error_count") = PyInt(Len(invalid))
            /\ Len(valid) + Len(invalid) = Len(call.arg)
            /\ invalid # <<>> =>
                /\ get(call.val, "errors").t = "list"
                /\ Len(DictGet(call.val, "errors").v) = Len(invalid)
                /\ \A k \in DOMAIN invalid :
                    LET e == DictGet(call.val, "errors").v[k].v
                    IN  /\ DictGet(e, "index") = PyInt(invalid[k] - 1)
                        /\ Truthy(DictGet(e, "error"))
            /\ call.arg # <<>> =>
                get(call.val, hashes)
                    = PyList([k \in DOMAIN valid |-> RecordHash(call.arg[valid[k]])])
            /\ (~medicaid /\ call.arg # <<>>) =>
                get(call.val, "total_amount")
                    = PyInt(SumOf([k \in DOMAIN valid |->
                                NumberOf(DictGet(call.arg[valid[k]].v, "amount"))]))

\* a batch of valid and invalid records returned its receipt
C17_Reached ==
    /\ BatchReturned
    /\ call.raised = "none"
    /\ ValidAt(call.op, call.arg) # <<>>
    /\ InvalidAt(call.op, call.arg) # <<>>
    /\ DictGet(call.val, "error_count") = PyInt(Len(InvalidAt(call.op, call.arg)))

\* the lines a step appends to the ledger
NewLines == SubSeq(fs'[RECEIPTS_LEDGER_PATH].lines,
                   Len(fs[RECEIPTS_LEDGER_PATH].lines) + 1,
                   Len(fs'[RECEIPTS_LEDGER_PATH].lines))

BatchOfSome ==
    /\ call.op = "pending"
    /\ call.arg # <<>>
    /\ call'.op \in {"medicaid.batch_ingest", "voucher.batch_ingest"}

\* C20: batch_ingest on a non-empty list appends to the ledger one ingest
\* receipt for every valid record, in the order of the list, and then one batch
\* receipt whose merkle_root is the merkle root of the hashes of those ingest
\* receipts in that order.
C20_LedgerGainsBatch ==
    [][BatchOfSome =>
        LET medicaid == call'.op = "medicaid.batch_ingest"
            valid    == ValidAt(call'.op, call.arg)
            hash     == IF medicaid THEN "claim_hash" ELSE "txn_hash"
            n        == Len(valid)
        IN  /\ fs'[RECEIPTS_LEDGER_PATH].lines
                = fs[RECEIPTS_LEDGER_PATH].lines \o NewLines
            /\ Len(NewLines) = n + 1
            /\ \A k \in 1..n :
                /\ DictGet(loads(NewLines[k]), "receipt_type")
                    = (IF medicaid THEN MEDICAID_INGEST ELSE VOUCHER_INGEST)
                /\ DictGet(loads(NewLines[k]), hash) = RecordHash(call.arg[valid[k]])
            /\ DictGet(loads(NewLines[n + 1]), "receipt_type")
                = (IF medicaid THEN MEDICAID_BATCH_INGEST ELSE VOUCHER_BATCH_INGEST)
            /\ DictGet(loads(NewLines[n + 1]), "merkle_root")
                = merkle([k \in 1..n |-> DictGet(loads(NewLines[k]), hash)])
    ]_vars

\* a batch of two valid records and an invalid one between them has left
\* three more lines in the ledger
C20_Reached ==
    /\ BatchReturned
    /\ call.raised = "none"
    /\ Len(call.arg) = 3
    /\ ValidAt(call.op, call.arg) = <<1, 3>>
    /\ Len(emitted) = 3
    /\ \A k \in 1..3 : emitted[k].io = "ok"
    /\ Len(fs[RECEIPTS_LEDGER_PATH].lines) >= 3


-----------------------------------------------------------------------------
(* entropy/network.py, entropy/temporal.py: Shannon entropy *)

\* 100 * log2(n), rounded, for n = 1..16
Log2Hundredths == <<0, 100, 158, 200, 232, 258, 281, 300,
                    317, 332, 346, 358, 370, 381, 391, 400>>

\* the loop `if d > 0: p = d / total; entropy -= p * math.log2(p)` over parts
\* that sum to total: log2(total) - sum(d * log2(d)) / total, counted in
\* hundredths of a bit
Shannon(parts, total) ==
    LET positive == SelectSeq(parts, LAMBDA d : d > 0)
    IN  PyFloat((total * Log2Hundredths[total]
                    - SumOf([i \in DOMAIN positive |->
                                positive[i] * Log2Hundredths[positive[i]]]))
                \div total)

\* what a function hands back
Value_(val) == [raised |-> "none", val |-> val]

\* list(degree_count.values()): how often each provider ends an edge
Degrees(edges) ==
    LET ends   == [k \in 1..(2 * Len(edges)) |->
                    IF k % 2 = 1 THEN edges[(k + 1) \div 2].source
                    ELSE edges[k \div 2].target]
        firsts == SelectSeq([k \in DOMAIN ends |-> k],
                            LAMBDA k : \A j \in 1..(k - 1) : ends[j] # ends[k])
    IN  [i \in DOMAIN firsts |->
            Cardinality({k \in DOMAIN ends : ends[k] = ends[firsts[i]]})]

network_entropy(graph) ==
    LET edges   == graph.edges
        degrees == Degrees(edges)
        total   == SumOf(degrees)
    IN  IF edges = <<>> THEN Value_(PyFloat(0))
        ELSE IF degrees = <<>> THEN Value_(PyFloat(0))
        ELSE IF total = 0 THEN Value_(PyFloat(0))
        ELSE Value_(Shannon(degrees, total))

compute_edge_entropy(graph) ==
    LET edges   == graph.edges
        weights == [i \in DOMAIN edges |-> edges[i].weight]
        total   == SumOf(weights)
    IN  IF edges = <<>> THEN Value_(PyFloat(0))
        ELSE IF weights = <<>> THEN Value_(PyFloat(0))
        ELSE IF total = 0 THEN Value_(PyFloat(0))
        ELSE Value_(Shannon(weights, total))

compute_cluster_entropy(clusters) ==
    LET sizes == [i \in DOMAIN clusters |-> clusters[i].size]
        total == SumOf(sizes)
    IN  IF clusters = <<>> THEN Value_(PyFloat(0))
        ELSE IF sizes = <<>> THEN Value_(PyFloat(0))
        ELSE IF total = 0 THEN Value_(PyFloat(0))
        ELSE Value_(Shannon(sizes, total))

\* min(values), max(values) of a list that is not empty
MinOf(values) == CHOOSE v \in Members(values) : \A w \in Members(values) : v <= w

MaxOf(values) == CHOOSE v \in Members(values) : \A w \in Members(values) : w <= v

\* the bins of the values and how many values each holds
BinCounts(values, bins) ==
    LET min_val   == MinOf(values)
        range_val == MaxOf(values) - min_val
        bin_idx   == [i \in DOMAIN values |->
                        Min(((values[i] - min_val) * (bins - 1)) \div range_val, bins - 1)]
        firsts    == SelectSeq([k \in DOMAIN bin_idx |-> k],
                               LAMBDA k : \A j \in 1..(k - 1) : bin_idx[j] # bin_idx[k])
    IN  [i \in DOMAIN firsts |->
            Cardinality({k \in DOMAIN bin_idx : bin_idx[k] = bin_idx[firsts[i]]})]

\* a variant without the guard for short lists: min() of an empty list raises
time_series_entropy_unguarded(values, bins) ==
    IF values = <<>> THEN [raised |-> "ValueError", val |-> PyNone]
    ELSE IF MinOf(values) = MaxOf(values) THEN Value_(PyFloat(0))
    ELSE Value_(Shannon(BinCounts(values, bins), Len(values)))

time_series_entropy(values, bins) ==
    IF values = <<>> \/ Len(values) < 2 THEN Value_(PyFloat(0))
    ELSE IF MinOf(values) = MaxOf(values) THEN Value_(PyFloat(0))
    ELSE Value_(Shannon(BinCounts(values, bins), Len(values)))

-----------------------------------------------------------------------------
(* An analysis of the ledger: load, graph, clusters, entropies *)

MaxStored == 2    \* lines of the ledger an analysis starts from

DefaultBins == 10

StoredLines == {BlankLine} \cup {dumps(r, FALSE) : r \in SharingReceipts}

\* the ledger is missing, empty, or holds some lines
AnalysisLedgers ==
    {NoFile} \cup {[exists |-> TRUE, lines |-> l] : l \in SeqsUpTo(StoredLines, MaxStored)}

Series == {<<>>, <<3>>, <<3, 3>>, <<1, 4>>, <<1, 2, 4>>}

InitAnalysis ==
    /\ HAS_BLAKE3 = TRUE
    /\ \E ledger \in AnalysisLedgers :
        fs = [p \in Paths |-> IF p = RECEIPTS_LEDGER_PATH THEN ledger ELSE NoFile]
    /\ now = 1
    /\ emitted = <<>>
    /\ \E order \in Orders(GraphProviders), min_size \in MinSizes, values \in Series :
        call = [op |-> "pending", fn |-> "analysis", order |-> order,
                min_size |-> min_size, values |-> values,
                receipts |-> <<>>, graph |-> EmptyGraph, clusters |-> <<>>,
                raised |-> "none", val |-> PyNone]

\* the call of the analysis that follows the call just made
Then(op, r) ==
    /\ call' = [call EXCEPT !.op = op, !.raised = r.raised, !.val = r.val]
    /\ UNCHANGED <<HAS_BLAKE3, fs, now, emitted>>

LoadLedger ==
    /\ call.op = "pending"
    /\ call.fn = "analysis"
    /\ LET r == load_receipts(fs, "")
       IN  /\ call' = [call EXCEPT !.op = "load_receipts", !.raised = r.raised,
                                   !.val = PyNone, !.receipts = r.val]
           /\ UNCHANGED <<HAS_BLAKE3, fs, now, emitted>>

BuildGraph ==
    /\ call.op = "load_receipts"
    /\ call.raised = "none"
    /\ Len(call.order) = Cardinality(GraphProviders)
    /\ call' = [call EXCEPT !.op = "build_provider_graph",
                            !.graph = build_provider_graph(call.receipts, call.order)]
    /\ UNCHANGED <<HAS_BLAKE3, fs, now, emitted>>

FindClusters ==
    /\ call.op = "build_provider_graph"
    /\ Len(call.order) = Cardinality(GraphProviders)
    /\ call' = [call EXCEPT !.op = "detect_clusters",
                            !.clusters = detect_clusters(call.graph, call.min_size,
                                                         call.order)]
    /\ UNCHANGED <<HAS_BLAKE3, fs, now, emitted>>

NetworkEntropy ==
    /\ call.op = "detect_clusters"
    /\ Then("network_entropy", network_entropy(call.graph))

EdgeEntropy ==
    /\ call.op = "network_entropy"
    /\ Then("compute_edge_entropy", compute_edge_entropy(call.graph))

ClusterEntropy ==
    /\ call.op = "compute_edge_entropy"
    /\ Then("compute_cluster_entropy", compute_cluster_entropy(call.clusters))

TimeSeriesEntropy ==
    /\ call.op = "compute_cluster_entropy"
    /\ Then("time_series_entropy", time_series_entropy(call.values, DefaultBins))

NextAnalysis ==
    \/ LoadLedger
    \/ BuildGraph
    \/ FindClusters
    \/ NetworkEntropy
    \/ EdgeEntropy
    \/ ClusterEntropy
    \/ TimeSeriesEntropy

SpecAnalysis == InitAnalysis /\ [][NextAnalysis]_vars

\* the ledger is missing or has no line
NoLedgerLines == fs[RECEIPTS_LEDGER_PATH].lines = <<>>

\* C18: on empty input nothing raises: load_receipts of a missing or empty
\* ledger returns no receipt, build_provider_graph of no receipt returns a graph
\* without nodes and edges, detect_clusters of that graph returns no cluster,
\* and the four entropy functions return 0.0.
C18_EmptyInputGivesZero ==
    /\ call.raised = "none"
    /\ (call.op = "load_receipts" /\ NoLedgerLines) => call.receipts = <<>>
    /\ (call.op = "build_provider_graph" /\ call.receipts = <<>>)
        => /\ call.graph.nodes = <<>> /\ call.graph.edges = <<>>
           /\ call.graph.n_providers = 0 /\ call.graph.n_edges = 0
    /\ (call.op = "detect_clusters" /\ call.graph.nodes = <<>> /\ call.graph.edges = <<>>)
        => call.clusters = <<>>
    /\ (call.op \in {"network_entropy", "compute_edge_entropy"}
            /\ call.graph.edges = <<>>)
        => call.val = PyFloat(0)
    /\ (call.op = "compute_cluster_entropy" /\ call.clusters = <<>>)
        => call.val = PyFloat(0)
    /\ (call.op = "time_series_entropy" /\ call.values = <<>>)
        => call.val = PyFloat(0)

\* the analysis of an empty ledger file and an empty series has made its last
\* call
C18_Reached ==
    /\ call.op = "time_series_entropy"
    /\ fs[RECEIPTS_LEDGER_PATH].exists
    /\ NoLedgerLines
    /\ call.receipts = <<>>
    /\ call.graph.nodes = <<>>
    /\ call.clusters = <<>>
    /\ call.values = <<>>
    /\ call.val = PyFloat(0)


-----------------------------------------------------------------------------
(* The pipeline ingest_claim -> ledger -> load_receipts -> build_provider_graph *)

MaxClaims == 2    \* claims ingested before the ledger is analysed

\* claims of three providers for the patients X and Y, and a claim that
\* validate_claim refuses
PipelineClaims ==
    {GoodClaim(i) : i \in 1..3}
        \cup {With(GoodClaim(i), "patient_id", Lit("Y", 1)) : i \in 1..3}
        \cup {With(GoodClaim(1), "billed_amount", PyInt(0 - 1))}

InitPipeline ==
    /\ HAS_BLAKE3 = TRUE
    /\ fs \in Ledgers
    /\ now = 1
    /\ emitted = <<>>
    /\ \E n \in 1..MaxClaims :
        \E claims \in [1..n -> PipelineClaims], ios \in [1..n -> IOOutcomes],
           order \in Orders(GraphProviders) :
            call = [op |-> "ingesting", fn |-> "analysis", claims |-> claims,
                    ios |-> ios, done |-> 0, order |-> order,
                    receipts |-> <<>>, graph |-> EmptyGraph,
                    raised |-> "none", val |-> PyNone]

\* the next claim is handed to ingest_claim; after the last one the ledger is
\* ready to be analysed
IngestClaim ==
    /\ call.op = "ingesting"
    /\ call.done < Len(call.claims)
    /\ LET k == call.done + 1
           r == ingest_claim(fs, now, call.claims[k], TENANT_ID, call.ios[k])
       IN  /\ fs' = r.files
           /\ emitted' = IF r.raised = "none"
                         THEN Append(emitted, [receipt |-> r.val, io |-> call.ios[k]])
                         ELSE emitted
           /\ call' = [call EXCEPT !.done = k,
                                   !.op = IF k = Len(call.claims) THEN "pending"
                                          ELSE "ingesting",
                                   !.raised = r.raised,
                                   !.val = r.val]
    /\ UNCHANGED <<HAS_BLAKE3, now>>

NextPipeline ==
    \/ IngestClaim
    \/ LoadLedger
    \/ BuildGraph

SpecPipeline == InitPipeline /\ [][NextPipeline]_vars

\* claims i and j are valid claims of two providers for one patient
SamePatient(i, j) ==
    /\ validate_claim(call.claims[i]).valid
    /\ validate_claim(call.claims[j]).valid
    /\ get(call.claims[i].v, "provider_id") # get(call.claims[j].v, "provider_id")
    /\ get(call.claims[i].v, "patient_id") = get(call.claims[j].v, "patient_id")

\* the graph has an edge between the providers p and q
Joined(graph, p, q) ==
    \E k \in DOMAIN graph.edges :
        {graph.edges[k].source, graph.edges[k].target} = {p, q}

\* C19: every medicaid_ingest receipt emitted for a valid claim carries the
\* provider_id, the patient_id and a non-negative amount of the claim, and the
\* graph built from the ledger after the claims were ingested joins any two
\* distinct providers with valid claims for the same patient by an edge.
C19_SharedPatientGivesEdge ==
    /\ \A k \in DOMAIN emitted :
        /\ DictHas(emitted[k].receipt, "provider_id")
        /\ DictHas(emitted[k].receipt, "patient_id")
        /\ DictGet(emitted[k].receipt, "billed_amount").v >= 0
    /\ call.op = "build_provider_graph"
        => \A i, j \in DOMAIN call.claims :
            SamePatient(i, j)
                => Joined(call.graph, get(call.claims[i].v, "provider_id"),
                          get(call.claims[j].v, "provider_id"))

\* two valid claims of two providers for one patient were ingested and
\* written to the ledger, and the graph of the ledger was built
C19_Reached ==
    /\ call.op = "build_provider_graph"
    /\ Len(call.claims) = 2
    /\ SamePatient(1, 2)
    /\ \A k \in DOMAIN call.ios : call.ios[k] = "ok"
    /\ Len(emitted) = 2
    /\ Len(call.receipts) >= 2


-----------------------------------------------------------------------------
(* medicaid/network.py: flag_hub_providers, trace_referral_chains *)

\* degree_count[id] after the loop over the edges
DegreeOf(edges, id) ==
    Cardinality({k \in DOMAIN edges : edges[k].source = id})
        + Cardinality({k \in DOMAIN edges : edges[k].target = id})

\* sorted(flagged, key=lambda x: x["degree"], reverse=True): a stable sort
RECURSIVE SortByDegree(_)
SortByDegree(flagged) ==
    IF flagged = <<>> THEN <<>>
    ELSE LET first == CHOOSE i \in DOMAIN flagged :
                        /\ \A j \in DOMAIN flagged : flagged[j].degree <= flagged[i].degree
                        /\ \A j \in 1..(i - 1) : flagged[j].degree < flagged[i].degree
         IN  <<flagged[first]>>
                \o SortByDegree(SubSeq(flagged, 1, first - 1)
                                    \o SubSeq(flagged, first + 1, Len(flagged)))

\* flag_hub_providers(graph, threshold), the threshold in hundredths.  The mean
\* is sum(degree_count.values()) / len(degree_count), a quotient <<sum, count>>
\* over the providers that end an edge; degree > threshold * mean is compared
\* exactly.
flag_hub_providers(graph, threshold) ==
    LET edges == graph.edges
        nodes == graph.nodes
        ends  == {edges[k].source : k \in DOMAIN edges}
                    \cup {edges[k].target : k \in DOMAIN edges}
        total == 2 * Len(edges)
        count == Cardinality(ends)
        over  == SelectSeq(nodes, LAMBDA node :
                    DegreeOf(edges, node.provider_id) * count * 100 > threshold * total)
    IN  IF edges = <<>> \/ nodes = <<>> THEN <<>>
        ELSE SortByDegree([i \in DOMAIN over |->
                [provider_id |-> over[i].provider_id,
                 degree      |-> DegreeOf(edges, over[i].provider_id),
                 mean_degree |-> <<total, count>>,
                 deviation   |-> <<DegreeOf(edges, over[i].provider_id) * count, total>>]])

\* adjacency[node]: one entry for every edge end at node, in the order of the
\* edges
RECURSIVE Adjacent(_, _)
Adjacent(edges, node) ==
    IF edges = <<>> THEN <<>>
    ELSE LET e == Head(edges)
         IN  (IF e.source = node THEN <<[target |-> e.target, weight |-> e.weight]>>
              ELSE <<>>)
             \o (IF e.target = node THEN <<[target |-> e.source, weight |-> e.weight]>>
                 ELSE <<>>)
             \o Adjacent(Tail(edges), node)

\* the loop over adjacency.get(node, []) at depth d
RECURSIVE VisitNeighbours(_, _, _, _)
VisitNeighbours(infos, node, d, st) ==
    IF infos = <<>> THEN st
    ELSE LET neighbor == Head(infos).target
         IN  VisitNeighbours(Tail(infos), node, d,
                IF neighbor \in st.visited THEN st
                ELSE [visited    |-> st.visited \cup {neighbor},
                      next_layer |-> Append(st.next_layer, neighbor),
                      all_edges  |-> Append(st.all_edges,
                                            [from |-> node, to |-> neighbor,
                                             depth |-> d + 1,
                                             weight |-> Head(infos).weight])])

\* the loop over current_layer
RECURSIVE VisitLayer(_, _, _, _)
VisitLayer(edges, layer, d, st) ==
    IF layer = <<>> THEN st
    ELSE VisitLayer(edges, Tail(layer), d,
                    VisitNeighbours(Adjacent(edges, Head(layer)), Head(layer), d, st))

\* a variant that goes on until a layer is empty, whatever the depth asked for
RECURSIVE TraceLayers_to_the_end(_, _, _, _)
TraceLayers_to_the_end(edges, d, depth, st) ==
    LET r == VisitLayer(edges, st.layers[Len(st.layers)], d,
                        [visited |-> st.visited, next_layer |-> <<>>,
                         all_edges |-> st.all_edges])
    IN  IF r.next_layer = <<>> THEN st
        ELSE TraceLayers_to_the_end(edges, d + 1, depth,
                                    [visited   |-> r.visited,
                                     layers    |-> Append(st.layers, r.next_layer),
                                     all_edges |-> r.all_edges])

\* for d in range(depth), from d on; the loop breaks at an empty layer
RECURSIVE TraceLayers(_, _, _, _)
TraceLayers(edges, d, depth, st) ==
    IF d >= depth THEN st
    ELSE LET r == VisitLayer(edges, st.layers[Len(st.layers)], d,
                             [visited |-> st.visited, next_layer |-> <<>>,
                              all_edges |-> st.all_edges])
         IN  IF r.next_layer = <<>> THEN st
             ELSE TraceLayers(edges, d + 1, depth,
                              [visited   |-> r.visited,
                               layers    |-> Append(st.layers, r.next_layer),
                               all_edges |-> r.all_edges])

trace_referral_chains(graph, provider_id, depth) ==
    LET st == TraceLayers(graph.edges, 0, depth,
                          [visited |-> {provider_id}, layers |-> <<<<provider_id>>>>,
                           all_edges |-> <<>>])
    IN  [origin          |-> provider_id,
         depth_reached   |-> Len(st.layers) - 1,
         total_providers |-> Cardinality(st.visited),
         layers          |-> st.layers,
         edges           |-> st.all_edges]

-----------------------------------------------------------------------------
(* The hub and referral analyses on bounded graphs *)

MaxDepth == 3    \* depth given to trace_referral_chains

NetworkProviders == <<ProviderIds[1], ProviderIds[2], ProviderIds[3],
                      ProviderIds[4], ProviderIds[5]>>

\* the pairs of providers an edge can join, in the order of the edge list
NetworkPairs ==
    << <<ProviderIds[1], ProviderIds[2]>>, <<ProviderIds[1], ProviderIds[3]>>,
       <<ProviderIds[1], ProviderIds[4]>>, <<ProviderIds[2], ProviderIds[3]>>,
       <<ProviderIds[2], ProviderIds[4]>>, <<ProviderIds[3], ProviderIds[4]>>,
       <<ProviderIds[1], ProviderIds[5]>>, <<ProviderIds[3], ProviderIds[5]>>,
       <<ProviderIds[4], ProviderIds[5]>>, <<ProviderIds[2], ProviderIds[5]>> >>

\* a graph of build_provider_graph over the five providers, its nodes listed
\* forwards or backwards
NetworkGraph(pairs, backwards) ==
    LET chosen == SelectSeq(NetworkPairs, LAMBDA pr : pr \in pairs)
    IN  [nodes |-> [i \in DOMAIN NetworkProviders |->
                        [provider_id |-> NetworkProviders[IF backwards
                                            THEN Len(NetworkProviders) + 1 - i ELSE i],
                         provider_name |-> PyNone,
                         claim_count |-> 1, total_billed |-> 1]],
         edges |-> [i \in DOMAIN chosen |-> SharedPatientEdge(chosen[i])]]

NetworkGraphs ==
    {EmptyGraph}
        \cup {NetworkGraph(pairs, b) : pairs \in SUBSET Members(NetworkPairs), b \in BOOLEAN}

\* threshold: 1.0, 1.5, 2.0
Multipliers == {100, 150, 200}

\* the provider a trace starts from: one of the graph, or one it does not hold
Origins == Members(NetworkProviders) \cup {ProviderIds[6]}

InitNetwork ==
    /\ HAS_BLAKE3 = TRUE
    /\ fs = [p \in Paths |-> NoFile]
    /\ now = 1
    /\ emitted = <<>>
    /\ \E graph \in NetworkGraphs :
        \/ \E threshold \in Multipliers :
            call = [op |-> "pending", fn |-> "flag_hub_providers", graph |-> graph,
                    threshold |-> threshold]
        \/ \E origin \in Origins, depth \in 0..MaxDepth :
            call = [op |-> "pending", fn |-> "trace_referral_chains", graph |-> graph,
                    origin |-> origin, depth |-> depth]

FlagHubProviders ==
    /\ call.op = "pending"
    /\ call.fn = "flag_hub_providers"
    /\ call' = [op |-> "flag_hub_providers", graph |-> call.graph,
                threshold |-> call.threshold,
                val |-> flag_hub_providers(call.graph, call.threshold)]
    /\ UNCHANGED <<HAS_BLAKE3, fs, now, emitted>>

TraceReferralChains ==
    /\ call.op = "pending"
    /\ call.fn = "trace_referral_chains"
    /\ call' = [op |-> "trace_referral_chains", graph |-> call.graph,
                origin |-> call.origin, depth |-> call.depth,
                val |-> trace_referral_chains(call.graph, call.origin, call.depth)]
    /\ UNCHANGED <<HAS_BLAKE3, fs, now, emitted>>

NextNetwork == FlagHubProviders \/ TraceReferralChains

SpecNetwork == InitNetwork /\ [][NextNetwork]_vars

\* the providers listed in the nodes of the graph
NodeIds(graph) == {graph.nodes[i].provider_id : i \in DOMAIN graph.nodes}

\* the nodes whose degree is above threshold times the mean degree of all the
\* nodes of the graph
AboveMean(graph, threshold) ==
    {id \in NodeIds(graph) :
        DegreeOf(graph.edges, id) * Cardinality(NodeIds(graph)) * 100
            > threshold * 2 * Len(graph.edges)}

\* C21: flag_hub_providers returns exactly the nodes whose degree is strictly
\* greater than the multiplier times the mean degree over all the nodes of the
\* graph (a node without an edge counts with degree 0), sorted by degree in
\* non-increasing order.
C21_HubsAreAboveMeanOfAllNodes ==
    call.op = "flag_hub_providers"
        => /\ {call.val[i].provider_id : i \in DOMAIN call.val}
                = AboveMean(call.graph, call.threshold)
           /\ \A i, j \in DOMAIN call.val :
                /\ i < j => call.val[i].degree >= call.val[j].degree
                /\ i # j => call.val[i].provider_id # call.val[j].provider_id
           /\ \A i \in DOMAIN call.val :
                call.val[i].degree = DegreeOf(call.graph.edges, call.val[i].provider_id)

\* flag_hub_providers has returned for a graph that has a node without an
\* edge and a node above the mean of all nodes
C21_Reached ==
    /\ call.op = "flag_hub_providers"
    /\ \E id \in NodeIds(call.graph) : DegreeOf(call.graph.edges, id) = 0
    /\ AboveMean(call.graph, call.threshold) # {}


\* the providers within k edges of the origin
RECURSIVE Within(_, _, _)
Within(edges, origin, k) ==
    IF k <= 0 THEN (IF k = 0 THEN {origin} ELSE {})
    ELSE LET near == Within(edges, origin, k - 1)
         IN  near \cup {edges[i].target : i \in {i \in DOMAIN edges : edges[i].source \in near}}
                  \cup {edges[i].source : i \in {i \in DOMAIN edges : edges[i].target \in near}}

\* the providers at shortest-path distance d from the origin
AtDistance(edges, origin, d) == Within(edges, origin, d) \ Within(edges, origin, d - 1)

\* the edges of the graph between distance d - 1 and distance d, as the
\* records trace_referral_chains returns for them
Crossing(edges, origin, d) ==
    {[from |-> edges[i].source, to |-> edges[i].target, depth |-> d,
      weight |-> edges[i].weight] :
        i \in {i \in DOMAIN edges : /\ edges[i].source \in AtDistance(edges, origin, d - 1)
                                    /\ edges[i].target \in AtDistance(edges, origin, d)}}
    \cup
    {[from |-> edges[i].target, to |-> edges[i].source, depth |-> d,
      weight |-> edges[i].weight] :
        i \in {i \in DOMAIN edges : /\ edges[i].target \in AtDistance(edges, origin, d - 1)
                                    /\ edges[i].source \in AtDistance(edges, origin, d)}}

\* layer d of the result, as a set; empty when the result has no layer d
LayerSet(r, d) == IF d + 1 \in DOMAIN r.layers THEN Members(r.layers[d + 1]) ELSE {}

\* the layers are a breadth-first search: layer d holds exactly the nodes at
\* distance d, no node is listed twice, depth_reached <= depth and
\* total_providers counts the nodes of all layers
LayersAreBfs ==
    LET r == call.val
        edges == call.graph.edges
    IN  /\ \A d \in 0..call.depth : LayerSet(r, d) = AtDistance(edges, call.origin, d)
        /\ \A d \in DOMAIN r.layers :
            /\ r.layers[d] # <<>>
            /\ \A i, j \in DOMAIN r.layers[d] : r.layers[d][i] = r.layers[d][j] => i = j
            /\ \A e \in DOMAIN r.layers : d # e => Members(r.layers[d]) \cap Members(r.layers[e]) = {}
        /\ r.depth_reached = Len(r.layers) - 1
        /\ r.depth_reached <= call.depth
        /\ r.total_providers = SumOf([d \in DOMAIN r.layers |-> Len(r.layers[d])])

\* C22: trace_referral_chains returns a layered breadth-first search: layer d
\* holds exactly the nodes at shortest-path distance d from the start, the
\* layers are disjoint, depth_reached <= depth, total_providers is the number
\* of nodes over all layers, and the returned edges are exactly the edges of
\* the graph that cross from one layer to the next.
C22_TraceIsLayeredBfs ==
    call.op = "trace_referral_chains"
        => /\ LayersAreBfs
           /\ Members(call.val.edges)
                = UNION {Crossing(call.graph.edges, call.origin, d) : d \in 1..call.depth}
           /\ \A i, j \in DOMAIN call.val.edges :
                call.val.edges[i] = call.val.edges[j] => i = j

\* a trace has returned for a graph in which a node of layer 2 has two
\* neighbours in layer 1
C22_Reached ==
    /\ call.op = "trace_referral_chains"
    /\ call.depth >= 2
    /\ LayersAreBfs
    /\ \E id \in AtDistance(call.graph.edges, call.origin, 2) :
        Cardinality({e \in Crossing(call.graph.edges, call.origin, 2) : e.to = id}) = 2


\* C22, amended: the layers are a breadth-first search as claimed, and the
\* returned edges are edges of the graph that cross from one layer to the
\* next, exactly one for every node of the layers after the first: the edge
\* by which the search reached the node.
C22_TraceIsBfsTree ==
    call.op = "trace_referral_chains"
        => /\ LayersAreBfs
           /\ Members(call.val.edges)
                \subseteq UNION {Crossing(call.graph.edges, call.origin, d) : d \in 1..call.depth}
           /\ \A d \in 1..call.val.depth_reached :
                \A id \in LayerSet(call.val, d) :
                    Cardinality({i \in DOMAIN call.val.edges :
                                    call.val.edges[i].to = id}) = 1
           /\ Len(call.val.edges) = call.val.total_providers - 1

\* a trace has returned that was cut at the depth asked for, from a graph
\* with a node two layers down that has two neighbours in the layer above
C22_TreeReached ==
    /\ call.op = "trace_referral_chains"
    /\ call.depth = 2
    /\ call.val.depth_reached = 2
    /\ AtDistance(call.graph.edges, call.origin, 3) # {}
    /\ \E id \in LayerSet(call.val, 2) :
        Cardinality({e \in Crossing(call.graph.edges, call.origin, 2) : e.to = id}) = 2


-----------------------------------------------------------------------------
(* core.py: StopRule and the stoprule functions *)

\* context or {}
OrEmpty(context) == IF Truthy(context) THEN context ELSE PyDict(<<>>)

\* raise StopRule(rule_name, message, context) after the emit r; an exception
\* of emit_receipt leaves before StopRule is built
RaiseStopRule(r, rule_name, message, context, io) ==
    IF r.raised # "none"
    THEN [files |-> r.files, raised |-> r.raised, exc |-> PyNone, emits |-> <<>>]
    ELSE [files |-> r.files, raised |-> "StopRule",
          exc |-> [rule_name |-> rule_name, message |-> message,
                   context |-> OrEmpty(context)],
          emits |-> <<[receipt |-> r.val, io |-> io]>>]

stoprule_hash_mismatch(files, ts_now, expected, actual, context, io) ==
    RaiseStopRule(
        emit_receipt(files, ts_now, Lit("anomaly", 7),
                     << <<"anomaly_type", Lit("hash_mismatch", 13)>>,
                        <<"expected", expected>>,
                        <<"actual", actual>>,
                        <<"context", OrEmpty(context)>> >>,
                     TENANT_ID, io),
        "hash_mismatch",
        PyStr(<<Word("Expected ", 9)>> \o Str(expected).v
                \o <<Word(", got ", 6)>> \o Str(actual).v),
        context, io)

stoprule_invalid_receipt(files, ts_now, reason, receipt, io) ==
    RaiseStopRule(
        emit_receipt(files, ts_now, Lit("anomaly", 7),
                     << <<"anomaly_type", Lit("invalid_receipt", 15)>>,
                        <<"reason", reason>>,
                        <<"receipt", receipt>> >>,
                     TENANT_ID, io),
        "invalid_receipt", reason,
        PyDict(<< <<"receipt", receipt>> >>), io)

stoprule_slo_violation(files, ts_now, slo_name, threshold, actual, context, io) ==
    RaiseStopRule(
        emit_receipt(files, ts_now, Lit("violation", 9),
                     << <<"violation_type", Lit("slo_breach", 10)>>,
                        <<"slo_name", slo_name>>,
                        <<"threshold", threshold>>,
                        <<"actual", actual>>,
                        <<"context", OrEmpty(context)>> >>,
                     TENANT_ID, io),
        "slo_violation",
        PyStr(<<Word("SLO ", 4)>> \o Str(slo_name).v
                \o <<Word(": threshold=", 12)>> \o Str(threshold).v
                \o <<Word(", actual=", 9)>> \o Str(actual).v),
        context, io)

-----------------------------------------------------------------------------
(* One stoprule call on a ledger *)

\* the context of a failure: none, empty, a field, a list, a dict keyed by a
\* tuple, a dict keyed by an int and a str
StopContexts ==
    { PyNone, PyDict(<<>>), PyDict(<< <<"key", Value>> >>), PyList(<<PyInt(1)>>),
      PyDict(<< <<TupleKey, PyInt(3)>> >>),
      PyDict(<< <<IntKey, Value>>, <<"key", Value>> >>) }

\* the receipt reported as invalid
StopReceipts ==
    { PyNone, PyDict(ReceiptAB), PyDict(<< <<"key", ADate>> >>),
      PyDict(<< <<IntKey, Value>>, <<"key", Value>> >>) }

StopHashes == {HashAB, Lit("x", 1)}

StopCalls ==
    {[fn |-> "stoprule_hash_mismatch", expected |-> e, actual |-> a, context |-> c] :
        e \in StopHashes, a \in StopHashes, c \in StopContexts}
    \cup
    {[fn |-> "stoprule_invalid_receipt", reason |-> Lit("bad", 3), receipt |-> r] :
        r \in StopReceipts}
    \cup
    {[fn |-> "stoprule_slo_violation", slo_name |-> Lit("latency", 7),
      threshold |-> PyInt(50), actual |-> a, context |-> c] :
        a \in {PyInt(70), PyFloat(7050)}, c \in StopContexts}

InitStop ==
    /\ HAS_BLAKE3 \in BOOLEAN
    /\ fs \in Ledgers
    /\ now = 1
    /\ emitted = <<>>
    /\ \E arg \in StopCalls, io \in IOOutcomes :
        call = [op |-> "pending", fn |-> arg.fn, arg |-> arg, io |-> io]

\* the stoprule leaves with the exception r.raised
Stopped(r) ==
    /\ fs' = r.files
    /\ emitted' = emitted \o r.emits
    /\ call' = [op |-> call.fn, arg |-> call.arg, io |-> call.io,
                before |-> fs[RECEIPTS_LEDGER_PATH].lines,
                raised |-> r.raised, exc |-> r.exc]
    /\ UNCHANGED <<HAS_BLAKE3, now>>

StopruleHashMismatch ==
    /\ call.op = "pending"
    /\ call.fn = "stoprule_hash_mismatch"
    /\ Stopped(stoprule_hash_mismatch(fs, now, call.arg.expected, call.arg.actual,
                                      call.arg.context, call.io))

StopruleInvalidReceipt ==
    /\ call.op = "pending"
    /\ call.fn = "stoprule_invalid_receipt"
    /\ Stopped(stoprule_invalid_receipt(fs, now, call.arg.reason, call.arg.receipt,
                                        call.io))

StopruleSloViolation ==
    /\ call.op = "pending"
    /\ call.fn = "stoprule_slo_violation"
    /\ Stopped(stoprule_slo_violation(fs, now, call.arg.slo_name, call.arg.threshold,
                                      call.arg.actual, call.arg.context, call.io))

NextStop == StopruleHashMismatch \/ StopruleInvalidReceipt \/ StopruleSloViolation

SpecStop == InitStop /\ [][NextStop]_vars

StopRules == {"stoprule_hash_mismatch", "stoprule_invalid_receipt",
              "stoprule_slo_violation"}

\* the ledger holds the lines it held before the call and one more, a receipt
\* of the given type that names the failure
OneReceiptMore(receipt_type, name_field, name) ==
    LET lines == fs[RECEIPTS_LEDGER_PATH].lines
    IN  /\ Len(lines) = Len(call.before) + 1
        /\ SubSeq(lines, 1, Len(call.before)) = call.before
        /\ IsJson(lines[Len(lines)])
        /\ get(loads(lines[Len(lines)]), "receipt_type") = receipt_type
        /\ get(loads(lines[Len(lines)]), name_field) = name

\* C23: a stoprule function appends one anomaly or violation receipt that
\* describes the failure to the ledger and then raises StopRule; it never
\* returns normally, and raises StopRule also when the append fails.
C23_StopruleAlwaysRaisesStopRule ==
    call.op \in StopRules
        => /\ call.raised = "StopRule"
           /\ call.io = "ok"
                => CASE call.op = "stoprule_hash_mismatch" ->
                            OneReceiptMore(Lit("anomaly", 7), "anomaly_type",
                                           Lit("hash_mismatch", 13))
                     [] call.op = "stoprule_invalid_receipt" ->
                            OneReceiptMore(Lit("anomaly", 7), "anomaly_type",
                                           Lit("invalid_receipt", 15))
                     [] OTHER ->
                            OneReceiptMore(Lit("violation", 9), "violation_type",
                                           Lit("slo_breach", 10))
           /\ call.io # "ok" => fs[RECEIPTS_LEDGER_PATH].lines = call.before

\* a stoprule has left with an exception that is not StopRule, the ledger as
\* it was
C23_Reached ==
    /\ call.op = "stoprule_invalid_receipt"
    /\ call.io = "ok"
    /\ call.raised = "TypeError"
    /\ fs[RECEIPTS_LEDGER_PATH].lines = call.before


-----------------------------------------------------------------------------
(* load_receipts running beside a writer: the storage layer appends a line
   atomically, a reader takes the lines of the open file one by one *)

MaxWrites == 2    \* emit_receipt calls of the writer in one behaviour

Readers == {1, 2}

\* a load_receipts call that has not opened the ledger yet
ReaderStart == [pc |-> "start", pos |-> 0, receipts |-> <<>>, raised |-> "none"]

\* open(path, 'r'): FileNotFoundError ends the call with what it has
OpenLedger(files, rd) ==
    IF ~files[RECEIPTS_LEDGER_PATH].exists THEN [rd EXCEPT !.pc = "done"]
    ELSE [rd EXCEPT !.pc = "reading"]

\* one iteration of `for line in f`: the next line of the file as it is now,
\* or the end of the file
ReadLine(files, rd) ==
    LET lines == files[RECEIPTS_LEDGER_PATH].lines
    IN  IF rd.pos >= Len(lines) THEN [rd EXCEPT !.pc = "done"]
        ELSE LET line == strip(lines[rd.pos + 1])
             IN  IF line = <<>> THEN [rd EXCEPT !.pos = @ + 1]
                 ELSE IF IsJson(line)
                      THEN [rd EXCEPT !.pos = @ + 1,
                                      !.receipts = Append(@, loads(line))]
                      ELSE [rd EXCEPT !.pc = "done", !.raised = "JSONDecodeError"]

WriterPayloads == { << <<"key", Value>> >>, << <<"key", ADate>> >> }

InitConcurrent ==
    /\ HAS_BLAKE3 = TRUE
    /\ fs = [p \in Paths |-> NoFile]
    /\ now = 1
    /\ emitted = <<>>
    /\ call = [op |-> "concurrent", readers |-> [r \in Readers |-> ReaderStart]]

\* the writer's next emit_receipt call; the clock has moved on since the last
WriterEmits ==
    /\ Len(emitted) < MaxWrites
    /\ \E data \in WriterPayloads, io \in IOOutcomes :
        LET r == emit_receipt(fs, now, Lit("test", 4), data, TENANT_ID, io)
        IN  /\ fs' = r.files
            /\ emitted' = Append(emitted, [receipt |-> r.val, io |-> io])
    /\ now' = now + 1
    /\ UNCHANGED <<HAS_BLAKE3, call>>

ReaderOpens ==
    /\ \E r \in Readers :
        /\ call.readers[r].pc = "start"
        /\ call' = [call EXCEPT !.readers[r] = OpenLedger(fs, @)]
    /\ UNCHANGED <<HAS_BLAKE3, fs, now, emitted>>

ReaderReads ==
    /\ \E r \in Readers :
        /\ call.readers[r].pc = "reading"
        /\ call' = [call EXCEPT !.readers[r] = ReadLine(fs, @)]
    /\ UNCHANGED <<HAS_BLAKE3, fs, now, emitted>>

NextConcurrent == WriterEmits \/ ReaderOpens \/ ReaderReads

\* a reader that can take a step takes one
SpecConcurrent ==
    InitConcurrent /\ [][NextConcurrent]_vars
        /\ WF_vars(ReaderOpens) /\ WF_vars(ReaderReads)

IsPrefix(s, t) == Len(s) <= Len(t) /\ s = SubSeq(t, 1, Len(s))

\* the receipts the emit_receipt calls returned, in emission order
EmittedReceipts == [i \in DOMAIN emitted |-> emitted[i].receipt]

\* the receipts whose append succeeded, each as JSON stores it
StoredReceipts ==
    LET ok == SelectSeq(emitted, LAMBDA e : e.io = "ok")
    IN  [i \in DOMAIN ok |-> loads(dumps(ok[i].receipt, FALSE))]

AllReadersDone == \A r \in Readers : call.readers[r].pc = "done"

\* C24: a load_receipts running beside the writer ends without error and
\* returns a prefix of the emitted receipts in emission order.
C24_ReadIsPrefixOfEmitted ==
    call.op = "concurrent"
        => \A r \in Readers :
            call.readers[r].pc = "done"
                => /\ call.readers[r].raised = "none"
                   /\ IsPrefix(call.readers[r].receipts, EmittedReceipts)

\* what a reader has taken so far is a prefix of the stored receipts, and a
\* reader ends without error
ReadersHoldPrefix ==
    call.op = "concurrent"
        => \A r \in Readers :
            /\ call.readers[r].raised = "none"
            /\ IsPrefix(call.readers[r].receipts, StoredReceipts)

\* a step of a reader leaves the ledger and the other reader as they are
ReaderStepIsLocal ==
    (call.op = "concurrent" /\ call' # call)
        => /\ fs' = fs
           /\ \E r \in Readers : \A q \in Readers \ {r} : call'.readers[q] = call.readers[q]

\* C24, amended: every load_receipts running beside the writer ends, without
\* error, and returns a prefix of the receipts whose append succeeded, in
\* emission order and each as JSON stores it; a reader changes neither the
\* ledger nor another reader.
C24_ReadIsPrefixOfStored ==
    /\ []ReadersHoldPrefix
    /\ [][ReaderStepIsLocal]_vars
    /\ <>AllReadersDone

\* a reader came to the end of the file between two successful appends, the
\* other reader saw both records, and one of them held a value JSON cannot
\* represent
C24_Reached ==
    /\ call.op = "concurrent"
    /\ AllReadersDone
    /\ Len(StoredReceipts) = 2
    /\ Len(call.readers[1].receipts) = 1
    /\ Len(call.readers[2].receipts) = 2
    /\ StoredReceipts # EmittedReceipts


-----------------------------------------------------------------------------
(* time_series_entropy on bounded series *)

MaxSeries == 4    \* length of a series given to time_series_entropy
MaxValue  == 4    \* largest value of a series

BinChoices == {1, 2, 3, 10}

InitSeries ==
    /\ HAS_BLAKE3 = TRUE
    /\ fs = [p \in Paths |-> NoFile]
    /\ now = 1
    /\ emitted = <<>>
    /\ \E n \in 0..MaxSeries :
        \E values \in [1..n -> 0..MaxValue], bins \in BinChoices :
            call = [op |-> "pending", fn |-> "time_series_entropy",
                    values |-> values, bins |-> bins]

TimeSeriesEntropyOf ==
    /\ call.op = "pending"
    /\ call.fn = "time_series_entropy"
    /\ LET r == time_series_entropy(call.values, call.bins)
       IN  call' = [op |-> "time_series_entropy", values |-> call.values,
                    bins |-> call.bins, raised |-> r.raised, val |-> r.val]
    /\ UNCHANGED <<HAS_BLAKE3, fs, now, emitted>>

NextSeries == TimeSeriesEntropyOf

SpecSeries == InitSeries /\ [][NextSeries]_vars

\* the bucket of v when [min, max] is cut into `bins` buckets of the width
\* (max - min) / bins, the maximum falling into the last bucket
EqualWidthBucket(values, bins, v) ==
    Min(((v - MinOf(values)) * bins) \div (MaxOf(values) - MinOf(values)), bins - 1)

\* how many values each occupied bucket holds
EqualWidthCounts(values, bins) ==
    LET used == {EqualWidthBucket(values, bins, values[i]) : i \in DOMAIN values}
        first(b) == CHOOSE i \in DOMAIN values :
                        /\ EqualWidthBucket(values, bins, values[i]) = b
                        /\ \A j \in 1..(i - 1) : EqualWidthBucket(values, bins, values[j]) # b
        order == SelectSeq([i \in DOMAIN values |-> i],
                           LAMBDA i : first(EqualWidthBucket(values, bins, values[i])) = i)
    IN  [k \in DOMAIN order |->
            Cardinality({i \in DOMAIN values :
                EqualWidthBucket(values, bins, values[i])
                    = EqualWidthBucket(values, bins, values[order[k]])})]

IsConstant(values) == \A i, j \in DOMAIN values : values[i] = values[j]

\* C26: time_series_entropy returns 0 for a constant series and for a series
\* of fewer than 2 values; otherwise it returns the Shannon entropy of the
\* occupancy of `bins` buckets of equal width (max - min) / bins over
\* [min, max].
C26_EntropyOfEqualWidthBins ==
    call.op = "time_series_entropy"
        => /\ call.raised = "none"
           /\ (Len(call.values) < 2 \/ IsConstant(call.values)) => call.val = PyFloat(0)
           /\ ~(Len(call.values) < 2 \/ IsConstant(call.values))
                => call.val = Shannon(EqualWidthCounts(call.values, call.bins),
                                      Len(call.values))

\* the entropy of a series was returned in which two values share a bucket
\* of width (max - min) / (bins - 1) and no bucket of width (max - min) / bins
C26_Reached ==
    /\ call.op = "time_series_entropy"
    /\ call.bins = 3
    /\ call.values = <<0, 1, 3>>
    /\ call.val = PyFloat(91)

-----------------------------------------------------------------------------
(* merkle on a list and on the same list with its last item repeated *)

MaxLeaves == 5    \* length of an item list given to merkle

LeafItems ==
    { PyStr(<<Run("a", 1)>>), PyStr(<<Run("b", 1)>>),
      PyDict(<< <<"key", Value>>, <<"amount", PyInt(1)>> >>) }

InitLeaves ==
    /\ HAS_BLAKE3 \in BOOLEAN
    /\ fs = [p \in Paths |-> NoFile]
    /\ now = 1
    /\ emitted = <<>>
    /\ \E n \in 1..MaxLeaves :
        \E items \in [1..n -> LeafItems] :
            call = [op |-> "pending", fn |-> "merkle", arg |-> items]

\* merkle(items)
MerkleOfItems ==
    /\ call.op = "pending"
    /\ call.fn = "merkle"
    /\ call' = [op |-> "merkle", arg |-> call.arg, raised |-> "none",
                val |-> merkle(call.arg)]
    /\ UNCHANGED <<HAS_BLAKE3, fs, now, emitted>>

\* merkle(items + [items[-1]])
MerkleOfRepeatedLast ==
    /\ call.op = "merkle"
    /\ "repeated" \notin DOMAIN call
    /\ LET repeated == Append(call.arg, call.arg[Len(call.arg)])
       IN  call' = [op |-> "merkle", arg |-> call.arg, raised |-> "none",
                    val |-> call.val, repeated |-> merkle(repeated)]
    /\ UNCHANGED <<HAS_BLAKE3, fs, now, emitted>>

NextLeaves == MerkleOfItems \/ MerkleOfRepeatedLast

SpecLeaves == InitLeaves /\ [][NextLeaves]_vars

BothRootsKnown == call.op = "merkle" /\ "repeated" \in DOMAIN call

\* C28: for an item list of odd length n >= 3, merkle(items) equals
\* merkle(items + [last item]); for n = 1 the two roots differ.
C28_OddListHasRootOfRepeatedLast ==
    BothRootsKnown =>
        /\ (Len(call.arg) % 2 = 1 /\ Len(call.arg) >= 3) => call.val = call.repeated
        /\ Len(call.arg) = 1 => call.val # call.repeated

\* both roots were computed for a list of five items that are not all equal
C28_Reached ==
    /\ BothRootsKnown
    /\ Len(call.arg) = 5
    /\ call.arg[5] # call.arg[4]
    /\ call.val = call.repeated

-----------------------------------------------------------------------------
(* loop/gate.py, loop/genesis.py: risk scores in double arithmetic *)

\* A double that the sums of calculate_risk produce: Double(h, k) is the k-th
\* double above (for k < 0: below) the double of the decimal literal h/100,
\* and Double(0, -1) is a negative number above -0.005.
Double(h, k) == [t |-> "float", v |-> <<h, k>>]

\* x < y
Less(x, y) == x.v[1] < y.v[1] \/ (x.v[1] = y.v[1] /\ x.v[2] < y.v[2])

\* max(a, b) and min(a, b) of Python on doubles
FloatMax(a, b) == IF Less(a, b) THEN b ELSE a

FloatMin(a, b) == IF Less(b, a) THEN b ELSE a

\* IEEE 754 addition on the operands that calculate_risk and validate_blueprint
\* add: <<h1, k1, h2, k2, h, k>> reads Double(h1, k1) + Double(h2, k2) =
\* Double(h, k); 0.3 - 0.1 is the double below 0.2, for one
FloatSums ==
    {
      <<0, -1, -10, 0, -10, -2>>, <<0, -1, 10, 0, 10, -2>>, <<10, -2, -10, 0, 0, -1>>,
      <<10, -2, 10, 0, 20, -1>>, <<20, -1, -20, 0, 0, -1>>, <<20, -1, -10, 0, 10, -2>>,
      <<20, -1, 10, 0, 30, 0>>, <<20, -1, 20, 0, 40, 0>>, <<20, 0, -20, 0, 0, 0>>,
      <<20, 0, -10, 0, 10, 0>>, <<20, 0, 10, 0, 30, 1>>, <<20, 0, 20, 0, 40, 0>>,
      <<30, 0, -20, 0, 10, -2>>, <<30, 0, -10, 0, 20, -1>>, <<30, 0, 10, 0, 40, 0>>,
      <<30, 0, 20, 0, 50, 0>>, <<30, 0, 30, 0, 60, 0>>, <<40, -1, -10, 0, 30, -1>>,
      <<40, -1, 10, 0, 50, 0>>, <<40, 0, -20, 0, 20, 0>>, <<40, 0, -10, 0, 30, 1>>,
      <<40, 0, 10, 0, 50, 0>>, <<40, 0, 20, 0, 60, 1>>, <<50, 0, -20, 0, 30, 0>>,
      <<50, 0, -10, 0, 40, 0>>, <<50, 0, 10, 0, 60, 0>>, <<50, 0, 20, 0, 70, 0>>,
      <<60, 0, -20, 0, 40, -1>>, <<60, 0, -10, 0, 50, 0>>, <<60, 0, 10, 0, 70, 0>>,
      <<60, 0, 20, 0, 80, 0>>, <<60, 1, -10, 0, 50, 1>>, <<60, 1, 10, 0, 70, 1>>,
      <<70, 0, -10, 0, 60, 0>>, <<70, 0, 10, 0, 80, -1>>, <<70, 1, -20, 0, 50, 0>>,
      <<70, 1, -10, 0, 60, 1>>, <<70, 1, 10, 0, 80, 0>>, <<70, 1, 20, 0, 90, 1>>,
      <<80, 0, -20, 0, 60, 1>>, <<80, 0, -10, 0, 70, 1>>, <<80, 0, 10, 0, 90, 0>>,
      <<80, 0, 20, 0, 100, 0>>, <<90, 1, -10, 0, 80, 1>>, <<90, 1, 10, 0, 100, 1>>,
      <<100, 0, -10, 0, 90, 0>>, <<100, 0, 10, 0, 110, 0>> }

\* the double a row of the tables gives
Sum(e) == Double(e[5], e[6])

plus(x, y) ==
    Sum(CHOOSE e \in FloatSums : <<e[1], e[2], e[3], e[4]>> = x.v \o y.v)

\* (x + y) / 2 for a sum x of calculate_risk and a risk_score y of 0.1, 0.2,
\* 0.3 or 0.4: <<h1, k1, h2, k2, h, k>> reads
\* (Double(h1, k1) + Double(h2, k2)) / 2 = Double(h, k)
FloatMeans ==
    {
      <<-10, -2, 10, 0, 0, -1>>, <<-10, -2, 20, 0, 5, -2>>, <<-10, -2, 30, 0, 10, -2>>,
      <<-10, -2, 40, 0, 15, 0>>, <<0, -1, 10, 0, 5, -2>>, <<0, -1, 20, 0, 10, -1>>,
      <<0, -1, 30, 0, 15, -1>>, <<0, -1, 40, 0, 20, 0>>, <<10, -2, 10, 0, 10, -1>>,
      <<10, -2, 20, 0, 15, 0>>, <<10, -2, 30, 0, 20, -1>>, <<10, -2, 40, 0, 25, 0>>,
      <<10, 0, 10, 0, 10, 0>>, <<10, 0, 20, 0, 15, 1>>, <<10, 0, 30, 0, 20, 0>>,
      <<10, 0, 40, 0, 25, 0>>, <<20, -1, 10, 0, 15, 0>>, <<20, -1, 20, 0, 20, 0>>,
      <<20, -1, 30, 0, 25, 0>>, <<20, -1, 40, 0, 30, 0>>, <<20, 0, 10, 0, 15, 1>>,
      <<20, 0, 20, 0, 20, 0>>, <<20, 0, 30, 0, 25, 0>>, <<20, 0, 40, 0, 30, 1>>,
      <<30, -1, 10, 0, 20, -2>>, <<30, -1, 20, 0, 25, -1>>, <<30, -1, 30, 0, 30, -1>>,
      <<30, -1, 40, 0, 35, 0>>, <<30, 0, 10, 0, 20, 0>>, <<30, 0, 20, 0, 25, 0>>,
      <<30, 0, 30, 0, 30, 0>>, <<30, 0, 40, 0, 35, 0>>, <<30, 1, 10, 0, 20, 0>>,
      <<30, 1, 20, 0, 25, 0>>, <<30, 1, 30, 0, 30, 1>>, <<30, 1, 40, 0, 35, 1>>,
      <<40, -1, 10, 0, 25, 0>>, <<40, -1, 20, 0, 30, 0>>, <<40, -1, 30, 0, 35, 0>>,
      <<40, -1, 40, 0, 40, 0>>, <<40, 0, 10, 0, 25, 0>>, <<40, 0, 20, 0, 30, 1>>,
      <<40, 0, 30, 0, 35, 0>>, <<40, 0, 40, 0, 40, 0>>, <<50, 0, 10, 0, 30, 0>>,
      <<50, 0, 20, 0, 35, 0>>, <<50, 0, 30, 0, 40, 0>>, <<50, 0, 40, 0, 45, 0>>,
      <<50, 1, 10, 0, 30, 1>>, <<50, 1, 20, 0, 35, 2>>, <<50, 1, 30, 0, 40, 0>>,
      <<50, 1, 40, 0, 45, 1>>, <<60, 0, 10, 0, 35, 0>>, <<60, 0, 20, 0, 40, 0>>,
      <<60, 0, 30, 0, 45, -1>>, <<60, 0, 40, 0, 50, 0>>, <<60, 1, 10, 0, 35, 1>>,
      <<60, 1, 20, 0, 40, 0>>, <<60, 1, 30, 0, 45, 1>>, <<60, 1, 40, 0, 50, 0>>,
      <<70, 0, 10, 0, 40, -1>>, <<70, 0, 20, 0, 45, -1>>, <<70, 0, 30, 0, 50, 0>>,
      <<70, 0, 40, 0, 55, 0>>, <<70, 1, 10, 0, 40, 0>>, <<70, 1, 20, 0, 45, 1>>,
      <<70, 1, 30, 0, 50, 0>>, <<70, 1, 40, 0, 55, 0>>, <<80, -1, 10, 0, 45, -1>>,
      <<80, -1, 20, 0, 50, 0>>, <<80, -1, 30, 0, 55, -1>>, <<80, -1, 40, 0, 60, 0>>,
      <<80, 0, 10, 0, 45, 0>>, <<80, 0, 20, 0, 50, 0>>, <<80, 0, 30, 0, 55, 0>>,
      <<80, 0, 40, 0, 60, 1>>, <<80, 1, 10, 0, 45, 1>>, <<80, 1, 20, 0, 50, 1>>,
      <<80, 1, 30, 0, 55, 0>>, <<80, 1, 40, 0, 60, 1>>, <<90, 0, 10, 0, 50, 0>>,
      <<90, 0, 20, 0, 55, 0>>, <<90, 0, 30, 0, 60, 0>>, <<90, 0, 40, 0, 65, 0>>,
      <<90, 1, 10, 0, 50, 1>>, <<90, 1, 20, 0, 55, 0>>, <<90, 1, 30, 0, 60, 1>>,
      <<90, 1, 40, 0, 65, 1>>, <<100, 0, 10, 0, 55, 0>>, <<100, 0, 20, 0, 60, 0>>,
      <<100, 0, 30, 0, 65, 0>>, <<100, 0, 40, 0, 70, 0>>, <<100, 1, 10, 0, 55, 1>>,
      <<100, 1, 20, 0, 60, 1>>, <<100, 1, 30, 0, 65, 1>>, <<100, 1, 40, 0, 70, 2>>,
      <<110, 0, 10, 0, 60, 1>>, <<110, 0, 20, 0, 65, 0>>, <<110, 0, 30, 0, 70, 1>>,
      <<110, 0, 40, 0, 75, 0>> }

halfsum(x, y) ==
    Sum(CHOOSE e \in FloatMeans : <<e[1], e[2], e[3], e[4]>> = x.v \o y.v)

-----------------------------------------------------------------------------
(* loop/gate.py: the approval workflow *)

RISK_AUTO_APPROVE    == Double(20, 0)
RISK_SINGLE_APPROVAL == Double(50, 0)
RISK_DOUBLE_APPROVAL == Double(80, 0)

\* d.get(key, default)
GetOr(d, key, default) == IF DictHas(d, key) THEN DictGet(d, key) ELSE default

\* `needle in text`, for the words of the model
WordsWith(needle) ==
    CASE needle = "delete" -> {"delete", "delete_duplicate"}
      [] needle = "modify" -> {"modify", "modify_threshold"}
      [] needle = "alert"  -> {"alert"}
      [] OTHER             -> {needle}

Contains(text, needle) ==
    \E i \in DOMAIN text : text[i].k = "word" /\ text[i].a \in WordsWith(needle)

\* a success rate as the quotient of two integers: the int 0 of a default or
\* the float of a division (a decimal literal n/100 is the float of n / 100)
AsQuotient(x) ==
    IF x.t = "int" THEN Quotient(x.v, 1) ELSE x.v

\* the float successes / total
Ratio(num, den) == [t |-> "float", v |-> Quotient(num, den)]

\* risk = 0.3, and the adjustment for "delete"
RiskOfDelete(action_type) ==
    IF Contains(action_type, "delete") THEN plus(Double(30, 0), Double(30, 0))
    ELSE Double(30, 0)

RiskOfModify(action_type, risk) ==
    IF Contains(action_type, "modify") THEN plus(risk, Double(20, 0)) ELSE risk

RiskOfAlert(action_type, risk) ==
    IF Contains(action_type, "alert") THEN plus(risk, Double(-10, 0)) ELSE risk

RiskOfValidation(success_rate, risk) ==
    IF ~Leq(success_rate, Quotient(9, 10)) THEN plus(risk, Double(-20, 0))
    ELSE IF ~Leq(Quotient(5, 10), success_rate) THEN plus(risk, Double(20, 0))
         ELSE risk

RiskOfOrigin(gap_count, risk) ==
    IF gap_count > 100 THEN plus(risk, Double(-10, 0))
    ELSE IF gap_count < 5 THEN plus(risk, Double(10, 0))
         ELSE risk

RiskOfScore(action, risk) ==
    IF DictHas(action, "risk_score") THEN halfsum(risk, DictGet(action, "risk_score"))
    ELSE risk

\* the risk of an action of the type action_type, before it is clamped
RiskOfAction(action, action_type) ==
    RiskOfScore(action,
        RiskOfOrigin(GetOr(GetOr(action, "origin", PyDict(<<>>)).v,
                           "gap_count", PyInt(0)).v,
            RiskOfValidation(AsQuotient(GetOr(GetOr(action, "validation", PyDict(<<>>)).v,
                                              "success_rate", PyInt(0))),
                RiskOfAlert(action_type,
                    RiskOfModify(action_type, RiskOfDelete(action_type))))))

calculate_risk(action) ==
    FloatMax(Double(0, 0),
             FloatMin(Double(100, 0),
                      RiskOfAction(action, lower(GetOr(action, "action", PyStr(<<>>)).v))))

\* what a function of the gate leaves behind and hands back
Gate(approvals, r, val) ==
    [approvals |-> approvals, files |-> r.files, emits |-> r.emits, val |-> val]

NoEmit(files) == [files |-> files, emits |-> <<>>]

\* emit_receipt as a step of a function of the loop
Emitted(r, io) == [files |-> r.files, emits |-> <<[receipt |-> r.val, io |-> io]>>]

Emitting(files, ts_now, receipt_type, data, io) ==
    Emitted(emit_receipt(files, ts_now, receipt_type, data, TENANT_ID, io), io)

\* datetime.now(timezone.utc).isoformat()
IsoNow(ts_now) == PyStr(<<Iso(ts_now)>>)

\* request_approval; uuid is what uuid.uuid4() returns
RequiredApprovals(risk) == IF ~Less(risk, RISK_DOUBLE_APPROVAL) THEN 2 ELSE 1

ObservationPeriodHours(risk) == IF ~Less(risk, RISK_DOUBLE_APPROVAL) THEN 24 ELSE 0

\* the request of an approval for a blueprint of the risk
Requested(approvals, files, ts_now, blueprint, approval_id, risk, io) ==
    Gate(DictSet(approvals, approval_id,
                 PyDict(<< <<"approval_id", approval_id>>,
                           <<"blueprint_id", get(blueprint, "blueprint_id")>>,
                           <<"risk_score", risk>>,
                           <<"required_approvals", PyInt(RequiredApprovals(risk))>>,
                           <<"current_approvals", PyInt(0)>>,
                           <<"observation_period_hours",
                             PyInt(ObservationPeriodHours(risk))>>,
                           <<"status", Lit("pending", 7)>>,
                           <<"requested_at", IsoNow(ts_now)>>,
                           <<"approvers", PyList(<<>>)>>,
                           <<"blueprint", PyDict(blueprint)>> >>)),
         Emitting(files, ts_now, Lit("approval_request", 16),
                  << <<"approval_id", approval_id>>,
                     <<"blueprint_id", get(blueprint, "blueprint_id")>>,
                     <<"risk_score", risk>>,
                     <<"required_approvals", PyInt(RequiredApprovals(risk))>> >>, io),
         approval_id)

request_approval(approvals, files, ts_now, blueprint, uuid, io) ==
    Requested(approvals, files, ts_now, blueprint, uuid, calculate_risk(blueprint), io)

\* a variant that reports every request it finds as approved
check_approval_granting(approvals, approval_id) ==
    IF ~DictHas(approvals, approval_id) THEN Lit("not_found", 9)
    ELSE Lit("approved", 8)

\* check_approval(): the status of the request, "not_found" without one
check_approval(approvals, approval_id) ==
    IF ~DictHas(approvals, approval_id) THEN Lit("not_found", 9)
    ELSE GetOr(DictGet(approvals, approval_id).v, "status", Lit("pending", 7))

\* {"error": f"already_{status}"}
AlreadyError(status) ==
    PyDict(<< <<"error", PyStr(<<Word("already_", 8)>> \o status.v)>> >>)

NotFoundError == PyDict(<< <<"error", Lit("not_found", 9)>> >>)

\* the approval is added and counted; the request is granted when the count
\* reaches required_approvals
\* the request with one more approver, counted
Counted(approval, approver, ts_now) ==
    DictSet(DictSet(approval, "approvers",
                    PyList(Append(DictGet(approval, "approvers").v,
                                  PyDict(<< <<"approver", approver>>,
                                            <<"approved_at", IsoNow(ts_now)>> >>)))),
            "current_approvals", PyInt(DictGet(approval, "current_approvals").v + 1))

\* the request is stored as granted, and approval_granted is emitted
Granting(approvals, files, ts_now, approval_id, granted, io) ==
    Gate(DictSet(approvals, approval_id, PyDict(granted)),
         Emitting(files, ts_now, Lit("approval_granted", 16),
                  << <<"approval_id", approval_id>>,
                     <<"blueprint_id", DictGet(granted, "blueprint_id")>>,
                     <<"approvers",
                       PyList([i \in DOMAIN DictGet(granted, "approvers").v |->
                                  DictGet(DictGet(granted, "approvers").v[i].v,
                                          "approver")])>> >>,
                  io),
         PyDict(granted))

Counting(approvals, files, ts_now, approval_id, counted, io) ==
    IF DictGet(counted, "current_approvals").v >= DictGet(counted, "required_approvals").v
    THEN Granting(approvals, files, ts_now, approval_id,
                  DictSet(DictSet(counted, "status", Lit("approved", 8)),
                          "approved_at", IsoNow(ts_now)), io)
    ELSE Gate(DictSet(approvals, approval_id, PyDict(counted)), NoEmit(files),
              PyDict(counted))

Approved(approvals, files, ts_now, approval_id, approver, io) ==
    Counting(approvals, files, ts_now, approval_id,
             Counted(DictGet(approvals, approval_id).v, approver, ts_now), io)

\* a variant without the check of the status
approve_whatever_the_status(approvals, files, ts_now, approval_id, approver, io) ==
    IF ~DictHas(approvals, approval_id)
    THEN Gate(approvals, NoEmit(files), NotFoundError)
    ELSE Approved(approvals, files, ts_now, approval_id, approver, io)

approve(approvals, files, ts_now, approval_id, approver, io) ==
    IF ~DictHas(approvals, approval_id)
    THEN Gate(approvals, NoEmit(files), NotFoundError)
    ELSE IF DictGet(DictGet(approvals, approval_id).v, "status") # Lit("pending", 7)
         THEN Gate(approvals, NoEmit(files),
                   AlreadyError(DictGet(DictGet(approvals, approval_id).v, "status")))
         ELSE Approved(approvals, files, ts_now, approval_id, approver, io)

reject(approvals, files, ts_now, approval_id, rejector, reason, io) ==
    IF ~DictHas(approvals, approval_id)
    THEN Gate(approvals, NoEmit(files), NotFoundError)
    ELSE LET approval == DictGet(approvals, approval_id).v
             status   == DictGet(approval, "status")
             rejected == DictSet(DictSet(DictSet(DictSet(approval,
                            "status", Lit("rejected", 8)),
                            "rejected_at", IsoNow(ts_now)),
                            "rejected_by", rejector),
                            "rejection_reason", reason)
         IN  IF status # Lit("pending", 7)
             THEN Gate(approvals, NoEmit(files), AlreadyError(status))
             ELSE Gate(DictSet(approvals, approval_id, PyDict(rejected)),
                       Emitting(files, ts_now, Lit("approval_rejected", 17),
                                << <<"approval_id", approval_id>>,
                                   <<"blueprint_id", DictGet(approval, "blueprint_id")>>,
                                   <<"rejected_by", rejector>>,
                                   <<"reason", reason>> >>, io),
                       PyDict(rejected))

\* the request of auto_approve and its approval by "auto_approve_system"
AutoApproved(requested, approved) ==
    [approvals |-> approved.approvals, files |-> approved.files,
     emits |-> requested.emits \o approved.emits, val |-> PyBool(TRUE)]

AutoApprove(requested, ts_now, io) ==
    AutoApproved(requested,
                 approve(requested.approvals, requested.files, ts_now, requested.val,
                         Lit("auto_approve_system", 19), io))

\* auto_approve; ios are the outcomes of the storage layer for the two
\* receipts the call can emit
auto_approve(approvals, files, ts_now, blueprint, uuid, ios) ==
    IF Less(calculate_risk(blueprint), RISK_AUTO_APPROVE)
    THEN AutoApprove(request_approval(approvals, files, ts_now, blueprint, uuid, ios[1]),
                     ts_now, ios[2])
    ELSE Gate(approvals, NoEmit(files), PyBool(FALSE))

-----------------------------------------------------------------------------
(* The gate: request_approval, approve and reject in any order *)

MaxRequests == 1    \* number of approval requests of a process

\* what uuid.uuid4() returns at its i-th call: a string never returned before
Uuid(i) == PyStr(<<[k |-> "word", a |-> "uuid", n |-> 36, of |-> i]>>)

\* the blueprints of tests/test_loop.py (TEST_BP, LOW_RISK), one whose sum of
\* 0.3 + 0.2 + 0.2 + 0.1 stays below 0.8, and one of risk 1.0
GateBlueprints ==
    { << <<"blueprint_id", Lit("TEST_BP", 7)>>, <<"risk_score", Double(30, 0)>> >>,
      << <<"blueprint_id", Lit("LOW_RISK", 8)>>,
         <<"action", Lit("alert", 5)>>,
         <<"validation", PyDict(<< <<"success_rate", Ratio(95, 100)>> >>)>>,
         <<"origin", PyDict(<< <<"gap_count", PyInt(100)>> >>)>> >>,
      << <<"blueprint_id", Lit("MODIFY", 6)>>,
         <<"action", Lit("modify_threshold", 16)>>,
         <<"validation", PyDict(<< <<"success_rate", Ratio(25, 100)>> >>)>>,
         <<"origin", PyDict(<< <<"gap_count", PyInt(2)>> >>)>> >>,
      << <<"blueprint_id", Lit("DELETE", 6)>>,
         <<"action", PyStr(<<Word("delete", 6), Run(",", 1), Word("modify", 6)>>)>>,
         <<"validation", PyDict(<< <<"success_rate", Ratio(25, 100)>> >>)>>,
         <<"origin", PyDict(<< <<"gap_count", PyInt(2)>> >>)>> >> }

Approvers == {Lit("ann", 3), Lit("bob", 3)}

InitGate ==
    /\ HAS_BLAKE3 = TRUE
    /\ fs = [p \in Paths |-> NoFile]
    /\ now = 1
    /\ emitted = <<>>
    /\ call = [op |-> "import", arg |-> <<>>, val |-> PyNone,
               approvals |-> <<>>, uuids |-> 0]

\* a function of the gate has returned r
Gated(op, arg, r, uuids) ==
    /\ fs' = r.files
    /\ emitted' = emitted \o r.emits
    /\ call' = [op |-> op, arg |-> arg, val |-> r.val,
                approvals |-> r.approvals, uuids |-> uuids]
    /\ UNCHANGED <<HAS_BLAKE3, now>>

RequestApproval ==
    /\ call.uuids < MaxRequests
    /\ \E blueprint \in GateBlueprints, io \in IOOutcomes :
          Gated("request_approval", blueprint,
                request_approval(call.approvals, fs, now, blueprint,
                                 Uuid(call.uuids + 1), io),
                call.uuids + 1)

\* approve and reject of any request, made or not yet made, the ledger taking
\* the receipt
Approve ==
    \E i \in 1..MaxRequests, approver \in Approvers :
        Gated("approve", Uuid(i),
              approve(call.approvals, fs, now, Uuid(i), approver, "ok"), call.uuids)

Reject ==
    \E i \in 1..MaxRequests, rejector \in Approvers :
        Gated("reject", Uuid(i),
              reject(call.approvals, fs, now, Uuid(i), rejector, Lit("no", 2), "ok"),
              call.uuids)

NextGate == RequestApproval \/ Approve \/ Reject

SpecGate == InitGate /\ [][NextGate]_vars

Field(approvals, approval_id, key) == DictGet(DictGet(approvals, approval_id).v, key)

\* the requests hold a status of the three, a count of approvals that is the
\* number of recorded approvers and does not exceed the required number, and
\* the required number is 2 from a risk of 0.8 on and 1 below
RequestsAreSound ==
    \A id \in Keys(call.approvals) :
        LET approval == DictGet(call.approvals, id).v
            required == DictGet(approval, "required_approvals").v
            current  == DictGet(approval, "current_approvals").v
        IN  /\ DictGet(approval, "status")
                  \in {Lit("pending", 7), Lit("approved", 8), Lit("rejected", 8)}
            /\ current <= required
            /\ current = Len(DictGet(approval, "approvers").v)
            /\ required = IF Less(DictGet(approval, "risk_score"), Double(80, 0))
                          THEN 1 ELSE 2

\* what one call does to the request id
RequestStep(id) ==
    LET before   == DictGet(call.approvals, id).v
        after    == DictGet(call'.approvals, id).v
        was      == DictGet(before, "status")
        is       == DictGet(after, "status")
        required == DictGet(before, "required_approvals").v
        aimed    == call'.op \in {"approve", "reject"} /\ call'.arg = id
    IN  /\ id \in Keys(call'.approvals)
        /\ was # Lit("pending", 7) =>
              /\ after = before
              /\ aimed => Keys(call'.val.v) = {"error"}
        /\ (was = Lit("pending", 7) /\ is = Lit("approved", 8)) =>
              /\ call'.op = "approve" /\ call'.arg = id
              /\ DictGet(before, "current_approvals").v = required - 1
              /\ DictGet(after, "current_approvals").v = required
        /\ (was = Lit("pending", 7) /\ is = Lit("rejected", 8)) =>
              call'.op = "reject" /\ call'.arg = id
        /\ (was = Lit("pending", 7) /\ call'.op = "approve" /\ call'.arg = id) =>
              (is = Lit("approved", 8)
                  <=> DictGet(before, "current_approvals").v + 1 = required)

\* C29: after any sequence of request_approval, approve and reject calls every
\* request is pending, approved or rejected; a request leaves pending only for
\* approved, at the approve call that brings current_approvals up to
\* required_approvals (2 when risk >= 0.8, else 1), or for rejected, at a
\* reject call; an approved or rejected request is left unchanged by every
\* later call, and an approve or reject of it returns an error;
\* current_approvals never exceeds required_approvals and is the number of
\* recorded approvers.
C29_ApprovalLifecycle ==
    /\ []RequestsAreSound
    /\ [][\A id \in Keys(call.approvals) : RequestStep(id)]_vars

\* a request that needs two approvals was approved, and a later approve of it
\* returned an error
C29_Reached ==
    /\ call.op = "approve"
    /\ Keys(call.val.v) = {"error"}
    /\ call.arg \in Keys(call.approvals)
    /\ Field(call.approvals, call.arg, "status") = Lit("approved", 8)
    /\ Field(call.approvals, call.arg, "current_approvals") = PyInt(2)

-----------------------------------------------------------------------------
(* loop/sense.py, loop/harvest.py: what a cycle reads from the ledger *)

\* the instants of the loop are minutes
MinutesOfDay == 1440

\* a <= b for the texts of two timestamps; the empty text is below every text
TextLeq(a, b) == a = <<>> \/ (b # <<>> /\ a[1].n <= b[1].n)

\* the name of the receipt type of a receipt
TypeName(receipt) == GetOr(receipt, "receipt_type", Lit("unknown", 7)).v[1].a

sense_receipts(files, ts_now, since_minutes) ==
    LET all_receipts == load_receipts(files, "")
        cutoff_str   == <<Iso(ts_now - since_minutes)>>
    IN  IF all_receipts.raised # "none" THEN all_receipts
        ELSE Value_(SelectSeq(all_receipts.val, LAMBDA receipt :
                        /\ TextLeq(cutoff_str, GetOr(receipt, "ts", PyStr(<<>>)).v)
                        /\ get(receipt, "tenant_id") = TENANT_ID))

RECURSIVE CountTypes(_, _)
CountTypes(receipts, counts) ==
    IF receipts = <<>> THEN counts
    ELSE LET rtype == TypeName(Head(receipts))
         IN  CountTypes(Tail(receipts),
                        DictSet(counts, rtype,
                                PyInt(GetOr(counts, rtype, PyInt(0)).v + 1)))

count_by_type(receipts) == CountTypes(receipts, <<>>)

\* the receipt types of a domain
DomainTypes(domain) ==
    CASE domain = "medicaid" -> {"medicaid_ingest", "medicaid_batch_ingest",
                                 "network_analysis", "aihp_flag", "shell_detection",
                                 "billing_anomaly"}
      [] domain = "voucher"  -> {"voucher_ingest", "voucher_batch_ingest",
                                 "voucher_category", "merchant_flag", "voucher_pattern"}
      [] domain = "fiscal"   -> {"revenue_ingest", "policy_ingest", "policy_tracking",
                                 "fiscal_analysis"}
      [] domain = "entropy"  -> {"entropy_analysis"}
      [] domain = "loop"     -> {"gap", "helper_blueprint", "loop_cycle"}
      [] OTHER               -> {}

filter_by_domain(receipts, domain) ==
    SelectSeq(receipts, LAMBDA r : /\ DictHas(r, "receipt_type")
                                   /\ TypeName(r) \in DomainTypes(domain))

summarize_activity(files, ts_now, minutes) ==
    LET sensed   == sense_receipts(files, ts_now, minutes)
        receipts == sensed.val
        InDomain(domain) == PyInt(Len(filter_by_domain(receipts, domain)))
    IN  IF sensed.raised # "none" THEN sensed
        ELSE Value_(PyDict(
                << <<"period_minutes", PyInt(minutes)>>,
                   <<"total_receipts", PyInt(Len(receipts))>>,
                   <<"by_type", PyDict(count_by_type(receipts))>>,
                   <<"domains", PyDict(<< <<"medicaid", InDomain("medicaid")>>,
                                          <<"voucher", InDomain("voucher")>>,
                                          <<"fiscal", InDomain("fiscal")>>,
                                          <<"entropy", InDomain("entropy")>>,
                                          <<"loop", InDomain("loop")>> >>)>> >>))

harvest_gaps(files, ts_now, days) ==
    LET all_receipts == load_receipts(files, "")
        cutoff_str   == <<Iso(ts_now - days * MinutesOfDay)>>
    IN  IF all_receipts.raised # "none" THEN all_receipts
        ELSE Value_(SelectSeq(all_receipts.val, LAMBDA receipt :
                        /\ get(receipt, "receipt_type") = Lit("gap", 3)
                        /\ TextLeq(cutoff_str, GetOr(receipt, "ts", PyStr(<<>>)).v)))

\* f"{domain}:{problem_type}"
PatternKey(gap) ==
    PyStr(Str(GetOr(gap, "domain", Lit("unknown", 7))).v \o <<ColonAtom>>
            \o Str(GetOr(gap, "problem_type", Lit("unknown", 7))).v)

\* the first loop of identify_patterns: the patterns in the order in which
\* their keys enter the dict
RECURSIVE GroupGaps(_, _)
GroupGaps(gaps, patterns) ==
    IF gaps = <<>> THEN patterns
    ELSE LET gap    == Head(gaps)
             key    == PatternKey(gap)
             opened == IF \E i \in DOMAIN patterns : patterns[i].key = key
                       THEN patterns
                       ELSE Append(patterns,
                                [key |-> key,
                                 problem_type |-> GetOr(gap, "problem_type",
                                                        Lit("unknown", 7)),
                                 domain |-> GetOr(gap, "domain", Lit("unknown", 7)),
                                 count |-> 0, gaps |-> <<>>,
                                 resolution_steps |-> {},
                                 could_automate_votes |-> 0])
             at     == CHOOSE i \in DOMAIN opened : opened[i].key = key
             steps  == GetOr(gap, "resolution_steps", PyList(<<>>)).v
         IN  GroupGaps(Tail(gaps),
                [opened EXCEPT ![at] =
                    [@ EXCEPT !.count = @ + 1,
                              !.gaps = Append(@, gap),
                              !.resolution_steps = @ \cup {steps[i] : i \in DOMAIN steps},
                              !.could_automate_votes =
                                  @ + (IF Truthy(get(gap, "could_automate"))
                                       THEN 1 ELSE 0)]])

\* sorted(result, key=count, reverse=True): a stable sort
RECURSIVE SortByCount(_)
SortByCount(patterns) ==
    IF patterns = <<>> THEN <<>>
    ELSE LET first == CHOOSE i \in DOMAIN patterns :
                        /\ \A j \in DOMAIN patterns : patterns[j].count <= patterns[i].count
                        /\ \A j \in 1..(i - 1) : patterns[j].count < patterns[i].count
         IN  <<patterns[first]>>
                \o SortByCount(SubSeq(patterns, 1, first - 1)
                                  \o SubSeq(patterns, first + 1, Len(patterns)))

\* identify_patterns; order lists the resolution steps in the order in which
\* this process iterates a set of them
identify_patterns(gaps, min_count, order) ==
    LET patterns == GroupGaps(gaps, <<>>)
        frequent == SelectSeq(patterns, LAMBDA pattern : pattern.count >= min_count)
    IN  SortByCount([i \in DOMAIN frequent |->
            [key |-> frequent[i].key,
             problem_type |-> frequent[i].problem_type,
             domain |-> frequent[i].domain,
             count |-> frequent[i].count,
             gaps |-> frequent[i].gaps,
             resolution_steps |-> ListOf(frequent[i].resolution_steps, order),
             could_automate_votes |-> frequent[i].could_automate_votes,
             automation_likelihood |->
                 Quotient(frequent[i].could_automate_votes, frequent[i].count)]])

-----------------------------------------------------------------------------
(* loop/genesis.py: blueprints *)

\* ','.join(texts)
RECURSIVE Join(_)
Join(texts) ==
    IF texts = <<>> THEN <<>>
    ELSE IF Len(texts) = 1 THEN texts[1].v
    ELSE texts[1].v \o <<Run(",", 1)>> \o Join(Tail(texts))

\* synthesize_helper; uuid is what uuid.uuid4() returns
synthesize_helper(pattern, uuid, ts_now) ==
    LET resolution_steps == pattern.resolution_steps
        action == IF resolution_steps # <<>>
                  THEN PyStr(<<Word("execute_steps", 13), ColonAtom>>
                                \o Join(Prefix(resolution_steps, 5)))
                  ELSE PyStr(<<Word("alert", 5), ColonAtom, Word("operator", 8)>>)
        automation_likelihood == pattern.automation_likelihood
        risk_score == IF ~Leq(automation_likelihood, Quotient(8, 10)) THEN Double(20, 0)
                      ELSE IF ~Leq(automation_likelihood, Quotient(5, 10))
                           THEN Double(40, 0) ELSE Double(60, 0)
    IN  << <<"blueprint_id", uuid>>,
           <<"origin", PyDict(<< <<"gap_count", PyInt(pattern.count)>>,
                                 \* a pattern has no avg_resolution_ms: 0 hours
                                 <<"total_hours_saved", PyFloat(0)>> >>)>>,
           <<"trigger", PyStr(<<Word("receipt_type", 12), ColonAtom>>
                                \o Str(pattern.domain).v
                                \o <<Word("_* AND anomaly_flag", 19), ColonAtom,
                                     Word("true", 4)>>)>>,
           <<"action", action>>,
           <<"parameters", PyDict(<< <<"problem_type", pattern.problem_type>>,
                                     <<"domain", pattern.domain>>,
                                     <<"resolution_steps", PyList(resolution_steps)>> >>)>>,
           <<"validation", PyDict(<< <<"backtested", PyInt(0)>>,
                                     <<"success_rate", Ratio(0, 1)>> >>)>>,
           <<"risk_score", risk_score>>,
           <<"requires_approval", PyBool(~Less(risk_score, Double(20, 0)))>>,
           <<"status", Lit("proposed", 8)>>,
           <<"created_at", IsoNow(ts_now)>> >>

\* a number of a receipt in hundredths
Hundredths(x) == IF x.t = "float" THEN x.v ELSE 100 * NumberOf(x)

validate_blueprint(blueprint, historical) ==
    LET problem_type == get(DictGet(blueprint, "parameters").v, "problem_type")
        domain       == get(DictGet(blueprint, "parameters").v, "domain")
        matching     == SelectSeq(historical, LAMBDA g :
                            /\ get(g, "problem_type") = problem_type
                            /\ get(g, "domain") = domain)
        successes    == Len(SelectSeq(matching, LAMBDA g :
                            Hundredths(GetOr(g, "automation_confidence", PyInt(0))) > 50))
        success_rate == Quotient(successes, Len(matching))
        validated    == DictSet(blueprint, "validation", PyDict(
                            << <<"backtested", PyInt(Len(matching))>>,
                               <<"success_rate", Ratio(successes, Len(matching))>>,
                               <<"status", IF ~Leq(success_rate, Quotient(7, 10))
                                           THEN Lit("validated", 9)
                                           ELSE Lit("needs_review", 12)>> >>))
        risk_score   == DictGet(blueprint, "risk_score")
        rescored     == IF ~Leq(success_rate, Quotient(9, 10))
                        THEN DictSet(validated, "risk_score",
                                     FloatMax(Double(10, 0), plus(risk_score, Double(-20, 0))))
                        ELSE IF ~Leq(Quotient(5, 10), success_rate)
                             THEN DictSet(validated, "risk_score",
                                          FloatMin(Double(90, 0),
                                                   plus(risk_score, Double(20, 0))))
                             ELSE validated
    IN  IF matching = <<>>
        THEN DictSet(blueprint, "validation", PyDict(
                << <<"backtested", PyInt(0)>>,
                   <<"success_rate", Ratio(0, 1)>>,
                   <<"status", Lit("no_historical_data", 18)>> >>))
        ELSE DictSet(rescored, "requires_approval",
                     PyBool(~Less(DictGet(rescored, "risk_score"), Double(20, 0))))

-----------------------------------------------------------------------------
(* loop/effectiveness.py: the helpers of the process *)

register_helper(helpers, blueprint, ts_now) ==
    LET helper_id == GetOr(blueprint, "blueprint_id", PyStr(<<>>))
    IN  DictSet(helpers, helper_id, PyDict(
            << <<"helper_id", helper_id>>,
               <<"blueprint", PyDict(blueprint)>>,
               <<"deployed_at", IsoNow(ts_now)>>,
               <<"status", Lit("active", 6)>>,
               <<"executions", PyInt(0)>>,
               <<"successes", PyInt(0)>>,
               <<"failures", PyInt(0)>>,
               <<"total_time_saved_ms", PyInt(0)>>,
               <<"entropy_before", PyList(<<>>)>>,
               <<"entropy_after", PyList(<<>>)>> >>))

get_helper_summary(helpers) ==
    LET Having(status) == Len(SelectSeq(helpers, LAMBDA h :
                                get(h[2].v, "status") = status))
        Total(key) == SumOf([i \in DOMAIN helpers |->
                                GetOr(helpers[i][2].v, key, PyInt(0)).v])
    IN  PyDict(<< <<"total_helpers", PyInt(Len(helpers))>>,
                  <<"active", PyInt(Having(Lit("active", 6)))>>,
                  <<"retired", PyInt(Having(Lit("retired", 7)))>>,
                  <<"total_executions", PyInt(Total("executions"))>>,
                  <<"total_successes", PyInt(Total("successes"))>>,
                  <<"overall_success_rate",
                    IF Total("executions") > 0
                    THEN Ratio(Total("successes"), Total("executions"))
                    ELSE PyInt(0)>>,
                  <<"total_time_saved_hours",
                    PyFloat(Total("total_time_saved_ms") \div 36000)>> >>)

-----------------------------------------------------------------------------
(* loop/cycle.py: run_cycle and start_loop *)

\* The state of the loop in a process: _cycle_count of cycle.py, _approvals of
\* gate.py, _helpers of effectiveness.py, and the number of uuid4() calls.
LoopStart == [cycle_count |-> 0, approvals |-> <<>>, helpers |-> <<>>, uuids |-> 0]

\* the validated blueprint of a pattern is counted, and kept when its
\* success_rate is above 0.7
Proposed(h, blueprint) ==
    [uuids |-> h.uuids + 1,
     new_blueprints |->
        IF ~Leq(AsQuotient(GetOr(DictGet(blueprint, "validation").v,
                                 "success_rate", PyInt(0))), Quotient(7, 10))
        THEN Append(h.new_blueprints, blueprint)
        ELSE h.new_blueprints]

\* HYPOTHESIZE: a blueprint for each of the patterns that are likely to be
\* automated, kept when its validation succeeds
RECURSIVE Hypothesize(_, _, _, _)
Hypothesize(patterns, gaps, ts_now, h) ==
    IF patterns = <<>> THEN h
    ELSE IF ~Leq(Head(patterns).automation_likelihood, Quotient(5, 10))
         THEN Hypothesize(Tail(patterns), gaps, ts_now,
                Proposed(h, validate_blueprint(
                                synthesize_helper(Head(patterns), Uuid(h.uuids + 1),
                                                  ts_now), gaps)))
         ELSE Hypothesize(Tail(patterns), gaps, ts_now, h)

\* the blueprint is counted and registered; g.registered keeps, for every
\* call of register_helper, the blueprint and the approvals of that moment
Deployed(g, blueprint, gate, ts_now) ==
    [approvals |-> gate.approvals, files |-> gate.files,
     emits |-> g.emits \o gate.emits, uuids |-> g.uuids + 1,
     helpers |-> register_helper(g.helpers, blueprint, ts_now),
     helpers_approved |-> g.helpers_approved + 1,
     helpers_deployed |-> g.helpers_deployed + 1,
     registered |-> Append(g.registered,
                      [blueprint |-> blueprint, approvals |-> gate.approvals])]

\* a blueprint auto_approve turned down: the request is made and checked
GateRequested(blueprint, g, requested, ts_now) ==
    IF check_approval(requested.approvals, requested.val) = Lit("approved", 8)
    THEN Deployed(g, blueprint, requested, ts_now)
    ELSE [g EXCEPT !.approvals = requested.approvals,
                   !.files = requested.files,
                   !.emits = @ \o requested.emits,
                   !.uuids = @ + 1]

\* one blueprint of the loop over new_blueprints, auto being what
\* auto_approve did
GateOne(blueprint, g, auto, ts_now, io) ==
    IF auto.val.v
    THEN Deployed(g, blueprint, auto, ts_now)
    ELSE GateRequested(blueprint, g,
            request_approval(g.approvals, g.files, ts_now, blueprint,
                             Uuid(g.uuids + 1), io), ts_now)

\* a variant that requests the approval of every blueprint and deploys
\* without a look at the status of the request
RECURSIVE GateLoop_deploying_unchecked(_, _, _, _)
GateLoop_deploying_unchecked(blueprints, g, ts_now, io) ==
    IF blueprints = <<>> THEN g
    ELSE GateLoop_deploying_unchecked(Tail(blueprints),
            Deployed(g, Head(blueprints),
                     request_approval(g.approvals, g.files, ts_now, Head(blueprints),
                                      Uuid(g.uuids + 1), io), ts_now),
            ts_now, io)

\* GATE: the loop over new_blueprints; io is the outcome of the storage layer
\* during the cycle
RECURSIVE GateLoop(_, _, _, _)
GateLoop(blueprints, g, ts_now, io) ==
    IF blueprints = <<>> THEN g
    ELSE GateLoop(Tail(blueprints),
            GateOne(Head(blueprints), g,
                    auto_approve(g.approvals, g.files, ts_now, Head(blueprints),
                                 Uuid(g.uuids + 1), <<io, io>>), ts_now, io),
            ts_now, io)

\* entropy_values[-1] - entropy_values[0] of the recent entropy_analysis
\* receipts, the int 0 for fewer than two
EntropyDelta(recent) ==
    LET entropy_values == SelectSeq(recent, LAMBDA r :
                              get(r, "receipt_type") = Lit("entropy_analysis", 16))
        Of(i) == Hundredths(GetOr(entropy_values[i], "entropy_value", PyInt(0)))
    IN  IF Len(entropy_values) >= 2
        THEN PyFloat(Of(Len(entropy_values)) - Of(1))
        ELSE PyInt(0)

\* the data of the loop_cycle receipt
CycleData(cycle_count, recent, gaps, patterns, new_blueprints, gated, activity) ==
    << <<"cycle_id", PyInt(cycle_count)>>,
       <<"receipts_processed", PyInt(Len(recent))>>,
       <<"anomalies_detected",
         PyInt(Len(SelectSeq(recent, LAMBDA r :
                    \/ Truthy(get(r, "anomaly_flag"))
                    \/ get(r, "risk_level") \in {Lit("high", 4), Lit("critical", 8)})))>>,
       <<"gaps_harvested", PyInt(Len(gaps))>>,
       <<"patterns_identified", PyInt(Len(patterns))>>,
       <<"helpers_proposed", PyInt(Len(new_blueprints))>>,
       <<"helpers_approved", PyInt(gated.helpers_approved)>>,
       <<"helpers_deployed", PyInt(gated.helpers_deployed)>>,
       <<"entropy_delta", EntropyDelta(recent)>>,
       <<"cycle_time_ms", PyInt(0)>>,
       <<"activity_summary", activity>>,
       <<"helper_summary", get_helper_summary(gated.helpers)>> >>

\* EMIT: the cycle returns its loop_cycle receipt
CycleEmitted(cycle_count, gated, receipt) ==
    [st |-> [cycle_count |-> cycle_count, approvals |-> gated.approvals,
             helpers |-> gated.helpers, uuids |-> gated.uuids],
     files |-> receipt.files, emits |-> gated.emits \o receipt.emits,
     registered |-> gated.registered,
     raised |-> "none", val |-> PyDict(receipt.emits[1].receipt)]

CycleGated(cycle_count, files, ts_now, io, recent, gaps, patterns, new_blueprints, gated) ==
    CycleEmitted(cycle_count, gated,
        Emitting(gated.files, ts_now, Lit("loop_cycle", 10),
                 CycleData(cycle_count, recent, gaps, patterns, new_blueprints, gated,
                           summarize_activity(files, ts_now, 60).val), io))

CycleHypothesized(st, files, ts_now, io, recent, gaps, patterns, hypothesized) ==
    CycleGated(st.cycle_count + 1, files, ts_now, io, recent, gaps, patterns,
               hypothesized.new_blueprints,
               GateLoop(hypothesized.new_blueprints,
                        [approvals |-> st.approvals, files |-> files, emits |-> <<>>,
                         uuids |-> hypothesized.uuids, helpers |-> st.helpers,
                         helpers_approved |-> 0, helpers_deployed |-> 0,
                         registered |-> <<>>],
                        ts_now, io))

CyclePatterns(st, files, ts_now, io, recent, gaps, patterns) ==
    CycleHypothesized(st, files, ts_now, io, recent, gaps, patterns,
        Hypothesize(Prefix(patterns, 3), gaps, ts_now,
                    [uuids |-> st.uuids, new_blueprints |-> <<>>]))

CycleHarvested(st, files, ts_now, order, io, recent, gaps) ==
    CyclePatterns(st, files, ts_now, io, recent, gaps, identify_patterns(gaps, 3, order))

\* SENSE: the cycle ends with the exception of load_receipts, or goes on
\* to HARVEST
CycleSensed(st, files, ts_now, order, io, sensed) ==
    IF sensed.raised # "none"
    THEN [st |-> [st EXCEPT !.cycle_count = @ + 1], files |-> files,
          emits |-> <<>>, registered |-> <<>>,
          raised |-> sensed.raised, val |-> PyNone]
    ELSE CycleHarvested(st, files, ts_now, order, io, sensed.val,
                        harvest_gaps(files, ts_now, 7).val)

\* run_cycle in a process of state st at instant ts_now; the clock stands
\* still during the cycle.  rank_gaps, whose result is not used, is left out.
run_cycle(st, files, ts_now, order, io) ==
    CycleSensed(st, files, ts_now, order, io, sense_receipts(files, ts_now, 60))

\* the pass of a cycle that raised: loop_error is emitted, and the loop
\* sleeps 5 seconds
PassFailed(lp, cycle, failed) ==
    [st |-> cycle.st, files |-> failed.files,
     emits |-> cycle.emits \o failed.emits,
     lp |-> lp, running |-> TRUE, sleep |-> 5, raised |-> cycle.raised]

\* str(e) is the message of the exception, type(e).__name__ its name
PassOf(lp, ts_now, io, cycle) ==
    IF cycle.raised = "none"
    THEN [st |-> cycle.st, files |-> cycle.files, emits |-> cycle.emits,
          lp |-> [lp EXCEPT !.cycle_count = @ + 1],
          running |-> ~(lp.max_cycles # 0 /\ lp.cycle_count + 1 >= lp.max_cycles),
          sleep |-> IF lp.max_cycles # 0 /\ lp.cycle_count + 1 >= lp.max_cycles
                    THEN 0 ELSE lp.interval_sec,
          raised |-> "none"]
    ELSE PassFailed(lp, cycle,
            Emitting(cycle.files, ts_now, Lit("loop_error", 10),
                     << <<"cycle_id", PyInt(cycle.st.cycle_count)>>,
                        <<"error", PyStr(<<[k |-> "repr", a |-> cycle.raised,
                                            n |-> 0, of |-> <<>>]>>)>>,
                        <<"error_type", Lit(cycle.raised, 15)>> >>, io))

\* One pass of the while loop of start_loop(max_cycles = n): lp.cycle_count is
\* the local count of the cycles that returned.  The result says whether the
\* loop goes on and how many seconds it sleeps first.
LoopPass(st, lp, files, ts_now, order, io) ==
    PassOf(lp, ts_now, io, run_cycle(st, files, ts_now, order, io))

-----------------------------------------------------------------------------
(* run_cycle, again and again, on a ledger of gap receipts *)

MaxCycles   == 2    \* number of run_cycle calls of a process
MaxApproves == 2    \* number of approve calls of somebody else

emit_gap(files, ts_now, problem_type, domain, time_to_resolve_ms, resolution_steps, could_automate, automation_confidence, io) ==
    emit_receipt(files, ts_now, Lit("gap", 3),
                 << <<"problem_type", problem_type>>,
                    <<"domain", domain>>,
                    <<"time_to_resolve_ms", time_to_resolve_ms>>,
                    <<"resolution_steps", resolution_steps>>,
                    <<"could_automate", could_automate>>,
                    <<"automation_confidence", automation_confidence>> >>,
                 TENANT_ID, io)

RestartJob      == Lit("restart_job", 11)
DeleteDuplicate == Lit("delete_duplicate", 16)

\* the orders in which a process iterates a set of resolution steps
StepOrders == {<<RestartJob, DeleteDuplicate>>, <<DeleteDuplicate, RestartJob>>}

\* Kinds of gaps: n receipts of one problem type, the first `votes` of them
\* with could_automate, the first `confident` of them with a confidence of 0.8
\* and the others with 0.4
GapKind(problem_type, n, steps, votes, confident) ==
    [problem_type |-> problem_type, n |-> n, steps |-> steps, votes |-> votes,
     confident |-> confident]

StuckJob  == GapKind(Lit("stuck_job", 9), 3, <<>>, 3, 3)
Duplicate == GapKind(Lit("duplicate_claim", 15), 3, <<DeleteDuplicate, RestartJob>>, 3, 3)
Drift     == GapKind(Lit("drift", 5), 3, <<RestartJob>>, 2, 3)
Slow      == GapKind(Lit("slow", 4), 4, <<RestartJob>>, 4, 3)
Rare      == GapKind(Lit("rare", 4), 2, <<>>, 2, 2)
Manual    == GapKind(Lit("manual", 6), 3, <<>>, 1, 3)
Hard      == GapKind(Lit("hard", 4), 3, <<>>, 3, 0)

\* the lines emit_gap wrote at instant ts for the gaps of a kind
GapLines(kind, ts) ==
    [i \in 1..kind.n |->
        dumps(emit_gap([p \in Paths |-> NoFile], ts, kind.problem_type,
                       Lit("medicaid", 8), PyInt(1000), PyList(kind.steps),
                       PyBool(i <= kind.votes),
                       IF i <= kind.confident THEN PyFloat(80) ELSE PyFloat(40),
                       "ok").val, FALSE)]

\* ledgers of gaps: of the last minute, of two hours ago, of two weeks ago
GapLedgers ==
    { <<>>,
      GapLines(StuckJob, 0),
      GapLines(Duplicate, 0),
      GapLines(Drift, 0),
      GapLines(Slow, 0),
      GapLines(StuckJob, 0) \o GapLines(Duplicate, 0),
      GapLines(StuckJob, 0) \o GapLines(Duplicate, 0) \o GapLines(Drift, 0)
          \o GapLines(Slow, 0),
      GapLines(Rare, 0) \o GapLines(Manual, 0) \o GapLines(Hard, 0),
      GapLines(StuckJob, -120) \o <<BlankLine>>,
      GapLines(StuckJob, -20000) }

LedgerOf(lines) ==
    [p \in Paths |-> IF p = RECEIPTS_LEDGER_PATH /\ lines # <<>>
                     THEN [exists |-> TRUE, lines |-> lines] ELSE NoFile]

InitCycle ==
    /\ HAS_BLAKE3 = TRUE
    /\ \E lines \in GapLedgers : fs = LedgerOf(lines)
    /\ now = 1
    /\ emitted = <<>>
    /\ call = [op |-> "import", st |-> LoopStart, registered |-> <<>>,
               raised |-> "none", val |-> PyNone, approves |-> 0]

\* run_cycle(), the ledger taking the receipts
RunCycle ==
    /\ call.st.cycle_count < MaxCycles
    /\ \E order \in StepOrders :
          \E r \in {run_cycle(call.st, fs, now, order, "ok")} :
              /\ fs' = r.files
              /\ emitted' = emitted \o r.emits
              /\ call' = [op |-> "run_cycle", st |-> r.st, registered |-> r.registered,
                          raised |-> r.raised, val |-> r.val, approves |-> call.approves]
    /\ UNCHANGED <<HAS_BLAKE3, now>>

\* somebody approves a request of the process, the ledger taking the receipt
ApproveRequest ==
    /\ call.approves < MaxApproves
    /\ \E approval_id \in Keys(call.st.approvals) :
        \E r \in {approve(call.st.approvals, fs, now, approval_id, Lit("ann", 3), "ok")} :
            /\ fs' = r.files
            /\ emitted' = emitted \o r.emits
            /\ call' = [op |-> "approve", st |-> [call.st EXCEPT !.approvals = r.approvals],
                        registered |-> <<>>, raised |-> "none", val |-> r.val,
                        approves |-> call.approves + 1]
    /\ UNCHANGED <<HAS_BLAKE3, now>>

NextCycle == RunCycle \/ ApproveRequest

SpecCycle == InitCycle /\ [][NextCycle]_vars

CycleReturned == call.op = "run_cycle" /\ call.raised = "none"

\* the approval records of a store that are about the blueprint
RecordsOf(approvals, blueprint) ==
    {id \in Keys(approvals) :
        Field(approvals, id, "blueprint_id") = DictGet(blueprint, "blueprint_id")}

\* C27: in every run_cycle, register_helper is called for a blueprint only
\* when the blueprint has an approval record whose status is "approved" at
\* that moment, and the loop_cycle receipt of the cycle has
\* helpers_deployed = helpers_approved <= helpers_proposed <= 3.
C27_DeployedOnlyAfterApproval ==
    CycleReturned =>
        /\ \A i \in DOMAIN call.registered :
              \E id \in RecordsOf(call.registered[i].approvals,
                                  call.registered[i].blueprint) :
                  Field(call.registered[i].approvals, id, "status") = Lit("approved", 8)
        /\ get(call.val.v, "receipt_type") = Lit("loop_cycle", 10)
        /\ DictGet(call.val.v, "helpers_deployed") = DictGet(call.val.v, "helpers_approved")
        /\ DictGet(call.val.v, "helpers_approved").v
              <= DictGet(call.val.v, "helpers_proposed").v
        /\ DictGet(call.val.v, "helpers_proposed").v <= 3

\* a cycle proposed three helpers out of four patterns and deployed one
C27_Reached ==
    /\ CycleReturned
    /\ DictGet(call.val.v, "patterns_identified") = PyInt(4)
    /\ DictGet(call.val.v, "helpers_proposed") = PyInt(3)
    /\ DictGet(call.val.v, "helpers_deployed") = PyInt(1)
    /\ Len(call.registered) = 1

\* the requests of a store that auto_approve turned down: risk >= 0.2
TurnedDown(approvals) ==
    {id \in Keys(approvals) :
        ~Less(Field(approvals, id, "risk_score"), RISK_AUTO_APPROVE)}

NeverRegistered ==
    \A id \in TurnedDown(call.st.approvals) :
        Field(call.st.approvals, id, "blueprint_id") \notin Keys(call.st.helpers)

\* a cycle leaves the earlier requests as they are and adds one pending
\* request for each blueprint that auto_approve turns down
CycleAddsRequests ==
    (call'.op = "run_cycle" /\ call'.raised = "none") =>
        LET receipt == call'.val.v
            added   == Keys(call'.st.approvals) \ Keys(call.st.approvals)
        IN  /\ \A id \in Keys(call.st.approvals) :
                  DictGet(call'.st.approvals, id) = DictGet(call.st.approvals, id)
            /\ Cardinality(added) = DictGet(receipt, "helpers_proposed").v
            /\ Cardinality(added \cap TurnedDown(call'.st.approvals))
                  = DictGet(receipt, "helpers_proposed").v
                        - DictGet(receipt, "helpers_deployed").v
            /\ \A id \in added \cap TurnedDown(call'.st.approvals) :
                  Field(call'.st.approvals, id, "status") = Lit("pending", 7)

\* C30: across run_cycle calls interleaved with approve calls, a blueprint
\* that was not auto-approved (risk >= 0.2) is never registered as a helper,
\* also when its request is approved afterwards; a cycle does not touch the
\* requests of earlier cycles, and adds one more pending request for each
\* such blueprint.
C30_TurnedDownIsNeverDeployed ==
    /\ []NeverRegistered
    /\ [][CycleAddsRequests]_vars

\* a request that auto_approve turned down was approved, a cycle ran after
\* that and added a second request for the same pattern, and no helper exists
C30_Reached ==
    /\ CycleReturned
    /\ call.st.cycle_count = 2
    /\ call.st.helpers = <<>>
    /\ Cardinality(TurnedDown(call.st.approvals)) = 2
    /\ \E id \in TurnedDown(call.st.approvals) :
          Field(call.st.approvals, id, "status") = Lit("approved", 8)

-----------------------------------------------------------------------------
(* loop/cycle.py: start_loop *)

\* the passes of the while loop that are followed
MaxPasses == 3

\* the instants of the loop are minutes, time.sleep takes seconds
SecondsOfMinute == 60

\* interval_sec of the callers: one second, and the default
Intervals == {1, 60}

\* ledgers of start_loop: the ledgers of gaps, and ledgers with a line that
\* json.loads rejects
LoopLedgers ==
    GapLedgers \cup {<<MalformedLine>>, GapLines(StuckJob, 0) \o <<MalformedLine>>}

InitLoop ==
    /\ HAS_BLAKE3 = TRUE
    /\ \E lines \in LoopLedgers : fs = LedgerOf(lines)
    /\ now = 1
    /\ emitted = <<>>
    /\ \E max_cycles \in 1..MaxCycles, interval_sec \in Intervals :
          call = [op |-> "pending", st |-> LoopStart,
                  lp |-> [cycle_count |-> 0, max_cycles |-> max_cycles,
                          interval_sec |-> interval_sec],
                  running |-> FALSE, passes |-> 0, raised |-> "none"]

\* start_loop() up to the while loop: _loop_running = True, cycle_count = 0
StartLoop ==
    /\ call.op = "pending"
    /\ call' = [call EXCEPT !.op = "start_loop", !.running = TRUE]
    /\ UNCHANGED <<HAS_BLAKE3, fs, now, emitted>>

\* one pass of the while loop of start_loop, the sleep included; the loop is
\* left by the break and by a false _loop_running
StartLoopPass ==
    /\ call.op = "start_loop"
    /\ call.running
    /\ call.passes < MaxPasses
    /\ \E order \in StepOrders, io \in IOOutcomes :
          \E r \in {LoopPass(call.st, call.lp, fs, now, order, io)} :
              /\ fs' = r.files
              /\ emitted' = emitted \o r.emits
              /\ now' = now + (r.sleep \div SecondsOfMinute)
              /\ call' = [op |-> IF r.running THEN "start_loop" ELSE "returned",
                          st |-> r.st, lp |-> r.lp, running |-> r.running,
                          passes |-> call.passes + 1, raised |-> r.raised]
    /\ UNCHANGED HAS_BLAKE3

\* signal_handler: SIGINT or SIGTERM between two passes; the while condition
\* is false at the next test
Interrupt ==
    /\ call.op = "start_loop"
    /\ call.running
    /\ call' = [call EXCEPT !.op = "returned", !.running = FALSE]
    /\ UNCHANGED <<HAS_BLAKE3, fs, now, emitted>>

NextLoop == StartLoop \/ StartLoopPass \/ Interrupt

SpecLoop == InitLoop /\ [][NextLoop]_vars

\* C25: start_loop(max_cycles = n) with n >= 1 executes run_cycle at most n
\* times, also when cycles raise exceptions, which are recorded as loop_error
\* receipts.
C25_AtMostMaxCyclesRuns ==
    /\ call.passes <= call.lp.max_cycles
    /\ call.st.cycle_count <= call.lp.max_cycles

\* start_loop(max_cycles = 1) has called run_cycle twice, both calls raised
\* and were recorded as loop_error receipts, and the loop goes on
C25_Reached ==
    /\ call.op = "start_loop"
    /\ call.running
    /\ call.lp.max_cycles = 1
    /\ call.lp.cycle_count = 0
    /\ call.passes = 2
    /\ Len(emitted) = 2
    /\ \A i \in DOMAIN emitted :
          get(emitted[i].receipt, "receipt_type") = Lit("loop_error", 10)

====
